---- MODULE Spec2Model ----
(***************************************************************************)
(* Quota-reservation engine of go-medical-booking.                        *)
(*                                                                         *)
(* One doctor schedule S is modelled together with                         *)
(*   - the durable store (PostgreSQL): the schedule row and the bookings   *)
(*     table with its partial unique index and its foreign key,            *)
(*   - the fast store (Redis): schedule:quota:S and booking:queue:S,       *)
(*   - the per-schedule mutex table of RedisSyncService,                   *)
(*   - request tasks running patientBookingUsecase.CreateBooking and       *)
(*     CancelBooking, one step per I/O call (suspension point),            *)
(*   - an administrator task running doctorScheduleUsecase.CreateSchedule, *)
(*     UpdateSchedule and DeleteSchedule with the engine calls they make.  *)
(* A durable or fast-store call that reports an error has had no effect,    *)
(* except the reservation script: its error can be a lost or timed-out      *)
(* reply to a script that ran.                                              *)
(***************************************************************************)
EXTENDS Integers, Sequences, FiniteSets, TLC

\* ---------------------------------------------------------------- bounds
NumTasks == 2
MaxCap == 2
MaxReserves == 2
MaxAdminOps == 1

Tasks == 1..NumTasks
Patients == {"p1", "p2"}
Dates == {"past", "d1", "d2"}
Capacities == 1..MaxCap

\* ------------------------------------------------------------- variables
VARIABLES
    sched,      \* doctor_schedules row of S: [state, total, date]
    bookings,   \* bookings table: sequence of rows, the index is the row id
    fsQuota,    \* schedule:quota:S  -- Nil (key absent) or <<n>>
    fsQueue,    \* booking:queue:S   -- Nil (key absent) or <<n>>
    muMap,      \* scheduleMu entry of S: 0 (no entry) or a mutex object id
    muLocked,   \* set of mutex objects that are locked
    task,       \* request tasks: position and locals of each
    admin,      \* administrator task: position and locals
    issued,     \* history: queue numbers returned by successful reservations
    queueHigh,  \* history: the highest value booking:queue:S has held
    workers,    \* the tasks that accept requests in this run
    adminLeft,  \* number of administrator operations still to come in this run
    hist,       \* history: NoHist, or the quota, the total, the number of
                \* reservations and the number of active rows at the start of
                \* a run, whether every engine call since returned nil, and
                \* whether none clamped its delta
    svc         \* RedisSyncService's cleanup goroutine and the callers of
                \* Stop: position of the loop, the mutex its pass holds,
                \* stopped, stopChan closed, the WaitGroup counter

vars == <<sched, bookings, fsQuota, fsQueue, muMap, muLocked, task, admin,
          issued, queueHigh, workers, adminLeft, hist, svc>>

\* ------------------------------------------------- fast-store primitives
Nil == <<>>
Key(n) == <<n>>
\* GET ... .Int(): redis.Nil leaves the Go zero value
Val(k) == IF k = Nil THEN 0 ELSE k[1]
\* INCR / DECR / INCRBY create a missing key from 0
Incr(k) == Key(Val(k) + 1)
Decr(k) == Key(Val(k) - 1)
IncrBy(k, d) == Key(Val(k) + d)

\* The script without its rollback INCR
decrQuotaIncrQueueScript_NoRollback(quota, queue) ==
    LET afterDecr == Decr(quota)
    IN  IF Val(afterDecr) < 0
        THEN [quota |-> afterDecr, queue |-> queue, ret |-> -1]
        ELSE [quota |-> afterDecr, queue |-> Incr(queue), ret |-> Val(Incr(queue))]

\* The Lua script, statement by statement
decrQuotaIncrQueueScript(quota, queue) ==
    LET afterDecr == Decr(quota)
        remaining == Val(afterDecr)
    IN  IF remaining < 0
        THEN [quota |-> Incr(afterDecr), queue |-> queue, ret |-> -1]
        ELSE LET afterIncr == Incr(queue)
             IN  [quota |-> afterDecr, queue |-> afterIncr, ret |-> Val(afterIncr)]

\* ---------------------------------------------------- durable-store views
BookingIds == 1..Len(bookings)
IsActive(b) == bookings[b].status # "cancelled"
ActiveIds == {b \in BookingIds : IsActive(b)}
ActiveCount == Cardinality(ActiveIds)

SetMax(S) == IF S = {} THEN 0 ELSE CHOOSE m \in S : \A x \in S : x <= m

\* FindByPatientAndSchedule: an active row of the patient, if any
FindByPatientAndSchedule(p) == {b \in ActiveIds : bookings[b].patient = p}

\* SyncScheduleQuota's query: COUNT(*) and COALESCE(MAX(queue_number), 0)
\* over the rows WHERE schedule_id = S AND status != 'cancelled'
SyncBookedCount == ActiveCount
SyncMaxQueueNumber == SetMax({bookings[b].queue : b \in ActiveIds})

\* --------------------------------------------------------- mutex objects
MutexIds == 1..(NumTasks + 2)
MutexRefs == {muMap} \cup {task[t].mt : t \in Tasks} \cup {admin.mt} \cup {svc.mt} \cup muLocked
\* &mutexWithTimestamp{}: a new object, distinct from every live one
NewMutex == CHOOSE i \in MutexIds : i \notin MutexRefs /\ \A j \in MutexIds : j \notin MutexRefs => i <= j
\* getScheduleMutex: scheduleMu.LoadOrStore(scheduleID, &mutexWithTimestamp{})
getScheduleMutex == IF muMap = 0 THEN NewMutex ELSE muMap

\* ------------------------------------------------------------------ Init
IdleTask == [pc |-> "idle", op |-> "none", patient |-> "p1", bid |-> 0,
             queueNumber |-> 0, mt |-> 0, result |-> "none",
             insertErr |-> "none", restoreCalls |-> 0, restoreOk |-> FALSE,
             q0 |-> 0]
\* NewRedisSyncService: stopChan open, wg.Add(1), the loop started
Stoppers == 1..2
IdleSvc == [loop |-> "select", mt |-> 0, stopped |-> FALSE, closed |-> FALSE, wg |-> 1,
            stop |-> [c \in Stoppers |-> "idle"]]

NoHist == [on |-> FALSE, q0 |-> 0, t0 |-> 0, i0 |-> 0, a0 |-> 0, ok |-> TRUE, exact |-> TRUE]

IdleAdmin == [pc |-> "idle", op |-> "none", total |-> 0, date |-> "d1",
              delta |-> 0, mt |-> 0, booked |-> 0, maxq |-> 0, resync |-> FALSE,
              err |-> FALSE, result |-> "none", remaining |-> 0,
              clamped |-> FALSE]

Init ==
    /\ \/ /\ sched = [state |-> "none", total |-> 0, date |-> "d1"]
          /\ fsQuota = Nil
          /\ fsQueue = Nil
       \/ \E c \in Capacities :
          /\ sched = [state |-> "live", total |-> c, date |-> "d1"]
          /\ fsQuota = Key(c)
          /\ fsQueue = Key(0)
    /\ bookings = <<>>
    /\ muMap = 0
    /\ muLocked = {}
    /\ task = [t \in Tasks |-> IdleTask]
    /\ admin = IdleAdmin
    /\ issued = <<>>
    /\ queueHigh = Val(fsQueue)
    \* either requests race on all tasks and the administrator is away, or the
    \* administrator works while one task serves requests
    /\ \/ workers = Tasks /\ adminLeft = 0
       \/ workers = {1} /\ adminLeft = MaxAdminOps
    /\ hist = NoHist
    /\ svc = IdleSvc

\* A write to schedule:quota:S by anyone but task me.  q0 is history: the
\* quota a task found when it reserved, 0 once somebody else wrote the key
Touched(tk, me) == [x \in DOMAIN tk |-> IF x = me THEN tk[x] ELSE [tk[x] EXCEPT !.q0 = 0]]

\* ------------------------------------------- patientBookingUsecase tasks
\* isDuplicateKeyError(err, "booking"): SQLSTATE 23505 on a constraint whose
\* name contains "booking" (idx_bookings_patient_schedule_active,
\* idx_bookings_booking_code); a foreign-key error is 23503
isDuplicateKeyError(kind) == kind \in {"unique", "code"}

\* The ways bookingRepo.Create can fail in the current state ("ctx": the
\* request context is done or the store is unreachable, not a PgError)
InsertFailures(p) ==
    {"ctx"}
    \cup (IF FindByPatientAndSchedule(p) # {} THEN {"unique"} ELSE {})
    \cup (IF sched.state # "live" THEN {"fk"} ELSE {})
    \cup (IF Len(bookings) > 0 THEN {"code"} ELSE {})
\* bookingRepo.Create without idx_bookings_patient_schedule_active
InsertAllowed_NoUniqueIndex(p) == sched.state = "live"

\* bookingRepo.Create succeeds: foreign key and partial unique index hold
InsertAllowed(p) == sched.state = "live" /\ FindByPatientAndSchedule(p) = {}

\* a booking row that starts as confirmed
NewBooking_Confirmed(p, q) == [patient |-> p, queue |-> q, status |-> "confirmed",
                               hits |-> 0, restored |-> 0]

\* a booking row that does not keep its queue number
NewBooking_NoQueueNumber(p, q) == [patient |-> p, queue |-> 0, status |-> "pending",
                                   hits |-> 0, restored |-> 0]

NewBooking(p, q) == [patient |-> p, queue |-> q, status |-> "pending",
                     hits |-> 0, restored |-> 0]

\* The handler has its result; the response is written by Respond
Return(t, res) == [task[t] EXCEPT !.pc = "done", !.result = res]

\* create-booking requests that have not reached the reservation yet
Reserving == {t \in Tasks : task[t].pc \in {"c_find", "c_lookup", "c_reserve"}}

StartCreateBooking(t, p) ==
    /\ task[t].pc = "idle"
    /\ t \in workers
    /\ Len(issued) + Cardinality(Reserving) < MaxReserves
    /\ task' = [task EXCEPT ![t] = [IdleTask EXCEPT !.pc = "c_find", !.op = "create", !.patient = p]]
    /\ UNCHANGED <<sched, bookings, fsQuota, fsQueue, muMap, muLocked, admin, issued, queueHigh, workers, adminLeft, hist, svc>>

\* Step 1 without the date check
CreateBooking_FindSchedule_NoPastCheck(t) ==
    /\ task[t].pc = "c_find"
    /\ \/ task' = [task EXCEPT ![t] = Return(t, "error")]
       \/ /\ sched.state # "live"
          /\ task' = [task EXCEPT ![t] = Return(t, "schedule-not-found")]
       \/ /\ sched.state = "live"
          /\ task' = [task EXCEPT ![t].pc = "c_lookup"]
    /\ UNCHANGED <<sched, bookings, fsQuota, fsQueue, muMap, muLocked, admin, issued, queueHigh, workers, adminLeft, hist, svc>>

\* Step 1: scheduleRepo.FindByID, nil check, past check
CreateBooking_FindSchedule(t) ==
    /\ task[t].pc = "c_find"
    /\ \/ task' = [task EXCEPT ![t] = Return(t, "error")]
       \/ /\ sched.state # "live"
          /\ task' = [task EXCEPT ![t] = Return(t, "schedule-not-found")]
       \/ /\ sched.state = "live" /\ sched.date = "past"
          /\ task' = [task EXCEPT ![t] = Return(t, "schedule-past")]
       \/ /\ sched.state = "live" /\ sched.date # "past"
          /\ task' = [task EXCEPT ![t].pc = "c_lookup"]
    /\ UNCHANGED <<sched, bookings, fsQuota, fsQueue, muMap, muLocked, admin, issued, queueHigh, workers, adminLeft, hist, svc>>

\* Step 2 placed after the reservation: the slot is taken before the lookup
CreateBooking_FindExisting_AfterReserve(t) ==
    /\ task[t].pc = "c_lookup"
    /\ LET r == decrQuotaIncrQueueScript(fsQuota, fsQueue)
       IN  /\ fsQuota' = r.quota
           /\ fsQueue' = r.queue
           /\ queueHigh' = IF Val(r.queue) > queueHigh THEN Val(r.queue) ELSE queueHigh
           /\ issued' = IF r.ret = -1 THEN issued ELSE Append(issued, r.ret)
           /\ IF r.ret = -1
              THEN task' = [task EXCEPT ![t] = Return(t, "quota-full")]
              ELSE IF FindByPatientAndSchedule(task[t].patient) # {}
              THEN task' = [task EXCEPT ![t] = Return(t, "already-booked")]
              ELSE task' = [task EXCEPT ![t].pc = "c_insert", ![t].queueNumber = r.ret]
    /\ UNCHANGED <<sched, bookings, muMap, muLocked, admin, workers, adminLeft, hist, svc>>

\* Step 2: bookingRepo.FindByPatientAndSchedule
CreateBooking_FindExisting(t) ==
    /\ task[t].pc = "c_lookup"
    /\ \/ task' = [task EXCEPT ![t] = Return(t, "error")]
       \/ /\ FindByPatientAndSchedule(task[t].patient) # {}
          /\ task' = [task EXCEPT ![t] = Return(t, "already-booked")]
       \/ /\ FindByPatientAndSchedule(task[t].patient) = {}
          /\ task' = [task EXCEPT ![t].pc = "c_reserve"]
    /\ UNCHANGED <<sched, bookings, fsQuota, fsQueue, muMap, muLocked, admin, issued, queueHigh, workers, adminLeft, hist, svc>>

\* a reservation that runs only while no schedule mutex is held
DecrQuotaAndIncrQueue_UnderMutex(t) ==
    /\ task[t].pc = "c_reserve"
    /\ muLocked = {}
    /\ LET r == decrQuotaIncrQueueScript(fsQuota, fsQueue)
           tk == IF r.quota # fsQuota THEN Touched(task, t) ELSE task
       IN  /\ fsQuota' = r.quota
           /\ fsQueue' = r.queue
           /\ queueHigh' = IF Val(r.queue) > queueHigh THEN Val(r.queue) ELSE queueHigh
           /\ IF r.ret = -1
              THEN /\ task' = [tk EXCEPT ![t] = Return(t, "quota-full")]
                   /\ issued' = issued
              ELSE /\ task' = [tk EXCEPT ![t].pc = "c_insert", ![t].queueNumber = r.ret,
                                         ![t].q0 = Val(fsQuota)]
                   /\ issued' = Append(issued, r.ret)
    /\ UNCHANGED <<sched, bookings, muMap, muLocked, admin, workers, adminLeft, hist, svc>>

\* a reservation that hands out queue numbers without looking at the quota
DecrQuotaAndIncrQueue_NoQuotaCheck(t) ==
    /\ task[t].pc = "c_reserve"
    /\ fsQueue' = Incr(fsQueue)
    /\ queueHigh' = IF Val(fsQueue') > queueHigh THEN Val(fsQueue') ELSE queueHigh
    /\ task' = [task EXCEPT ![t].pc = "c_insert", ![t].queueNumber = Val(fsQueue'),
                            ![t].q0 = Val(fsQuota)]
    /\ issued' = Append(issued, Val(fsQueue'))
    /\ UNCHANGED <<sched, bookings, fsQuota, muMap, muLocked, admin, workers, adminLeft, hist, svc>>

\* Step 3: redisSyncService.DecrQuotaAndIncrQueue -- the script ran
DecrQuotaAndIncrQueue(t) ==
    /\ task[t].pc = "c_reserve"
    /\ LET r == decrQuotaIncrQueueScript(fsQuota, fsQueue)
           tk == IF r.quota # fsQuota THEN Touched(task, t) ELSE task
       IN  /\ fsQuota' = r.quota
           /\ fsQueue' = r.queue
           /\ queueHigh' = IF Val(r.queue) > queueHigh THEN Val(r.queue) ELSE queueHigh
           /\ IF r.ret = -1
              THEN /\ task' = [tk EXCEPT ![t] = Return(t, "quota-full")]
                   /\ issued' = issued
              ELSE /\ task' = [tk EXCEPT ![t].pc = "c_insert", ![t].queueNumber = r.ret,
                                         ![t].q0 = Val(fsQuota)]
                   /\ issued' = Append(issued, r.ret)
    /\ UNCHANGED <<sched, bookings, muMap, muLocked, admin, workers, adminLeft, hist, svc>>

\* Step 3, transport error: the script did not run
DecrQuotaAndIncrQueue_Error(t) ==
    /\ task[t].pc = "c_reserve"
    /\ task' = [task EXCEPT ![t] = Return(t, "error")]
    /\ UNCHANGED <<sched, bookings, fsQuota, fsQueue, muMap, muLocked, admin, issued, queueHigh, workers, adminLeft, hist, svc>>

\* Step 3, transport error after the script ran: the request's deadline or
\* cancellation fired, or the connection broke, while the reply was awaited
DecrQuotaAndIncrQueue_ReplyLost(t) ==
    /\ task[t].pc = "c_reserve"
    /\ LET r == decrQuotaIncrQueueScript(fsQuota, fsQueue)
           tk == IF r.quota # fsQuota THEN Touched(task, t) ELSE task
       IN  /\ fsQuota' = r.quota
           /\ fsQueue' = r.queue
           /\ queueHigh' = IF Val(r.queue) > queueHigh THEN Val(r.queue) ELSE queueHigh
           /\ task' = [tk EXCEPT ![t] = Return(t, "error")]
    /\ UNCHANGED <<sched, bookings, muMap, muLocked, admin, issued, workers, adminLeft, hist, svc>>

\* Step 5: bookingRepo.Create succeeded
CreateBooking_Insert(t) ==
    /\ task[t].pc = "c_insert"
    /\ InsertAllowed(task[t].patient)
    /\ bookings' = Append(bookings, NewBooking(task[t].patient, task[t].queueNumber))
    /\ task' = [task EXCEPT ![t] = [Return(t, "ok") EXCEPT !.bid = Len(bookings) + 1]]
    /\ UNCHANGED <<sched, fsQuota, fsQueue, muMap, muLocked, admin, issued, queueHigh, workers, adminLeft, hist, svc>>

\* Step 6 with the compensation on the request context: a done context
\* ends the handler before RestoreQuota runs
CreateBooking_InsertFailed_RequestCtx(t) ==
    /\ task[t].pc = "c_insert"
    /\ \E kind \in InsertFailures(task[t].patient) :
          task' = [task EXCEPT ![t].pc = IF kind = "ctx" THEN "done" ELSE "r_getmu",
                               ![t].insertErr = kind,
                               ![t].queueNumber = 0,
                               ![t].result = IF isDuplicateKeyError(kind)
                                             THEN "already-booked" ELSE "error"]
    /\ UNCHANGED <<sched, bookings, fsQuota, fsQueue, muMap, muLocked, admin, issued, queueHigh, workers, adminLeft, hist, svc>>

\* Step 6 without the compensation: the error is returned at once
CreateBooking_InsertFailed_NoCompensation(t) ==
    /\ task[t].pc = "c_insert"
    /\ \E kind \in InsertFailures(task[t].patient) :
          task' = [task EXCEPT ![t].pc = "done", ![t].insertErr = kind,
                               ![t].queueNumber = 0,
                               ![t].result = IF isDuplicateKeyError(kind)
                                             THEN "already-booked" ELSE "error"]
    /\ UNCHANGED <<sched, bookings, fsQuota, fsQueue, muMap, muLocked, admin, issued, queueHigh, workers, adminLeft, hist, svc>>

\* Step 6: bookingRepo.Create failed -> compensate on a detached context
CreateBooking_InsertFailed(t) ==
    /\ task[t].pc = "c_insert"
    /\ \E kind \in InsertFailures(task[t].patient) :
          task' = [task EXCEPT ![t].pc = "r_getmu", ![t].insertErr = kind,
                               ![t].queueNumber = 0,
                               ![t].result = IF isDuplicateKeyError(kind)
                                             THEN "already-booked" ELSE "error"]
    /\ UNCHANGED <<sched, bookings, fsQuota, fsQueue, muMap, muLocked, admin, issued, queueHigh, workers, adminLeft, hist, svc>>

StartCancelBooking(t, p, b) ==
    /\ task[t].pc = "idle"
    /\ t \in workers
    /\ task' = [task EXCEPT ![t] = [IdleTask EXCEPT !.pc = "x_find", !.op = "cancel",
                                                   !.patient = p, !.bid = b]]
    /\ UNCHANGED <<sched, bookings, fsQuota, fsQueue, muMap, muLocked, admin, issued, queueHigh, workers, adminLeft, hist, svc>>

\* Step 1 without the ownership check
CancelBooking_Find_NoOwnerCheck(t) ==
    /\ task[t].pc = "x_find"
    /\ \/ task' = [task EXCEPT ![t] = Return(t, "error")]
       \/ /\ task[t].bid \notin BookingIds
          /\ task' = [task EXCEPT ![t] = Return(t, "booking-not-found")]
       \/ /\ task[t].bid \in BookingIds
          /\ task' = [task EXCEPT ![t].pc = "x_update"]
    /\ UNCHANGED <<sched, bookings, fsQuota, fsQueue, muMap, muLocked, admin, issued, queueHigh, workers, adminLeft, hist, svc>>

\* Step 1: bookingRepo.FindByID, nil check, ownership check (bid 0: unknown id)
CancelBooking_Find(t) ==
    /\ task[t].pc = "x_find"
    /\ \/ task' = [task EXCEPT ![t] = Return(t, "error")]
       \/ /\ task[t].bid \notin BookingIds
          /\ task' = [task EXCEPT ![t] = Return(t, "booking-not-found")]
       \/ /\ task[t].bid \in BookingIds
          /\ bookings[task[t].bid].patient # task[t].patient
          /\ task' = [task EXCEPT ![t] = Return(t, "booking-not-owned")]
       \/ /\ task[t].bid \in BookingIds
          /\ bookings[task[t].bid].patient = task[t].patient
          /\ task' = [task EXCEPT ![t].pc = "x_update"]
    /\ UNCHANGED <<sched, bookings, fsQuota, fsQueue, muMap, muLocked, admin, issued, queueHigh, workers, adminLeft, hist, svc>>

\* The UPDATE without its status predicate
RepoCancelBooking_NoStatusGuard(b) ==
    [rows |-> [bookings EXCEPT ![b].status = "cancelled", ![b].hits = @ + 1], affected |-> 1]

\* bookingRepository.CancelBooking: UPDATE ... WHERE id = ? AND status != 'cancelled'
RepoCancelBooking(b) ==
    IF IsActive(b)
    THEN [rows |-> [bookings EXCEPT ![b].status = "cancelled", ![b].hits = @ + 1], affected |-> 1]
    ELSE [rows |-> bookings, affected |-> 0]

\* a cancellation that returns after its UPDATE, without restore-slot
CancelBooking_Update_NoRestore(t) ==
    /\ task[t].pc = "x_update"
    /\ \/ /\ task' = [task EXCEPT ![t] = Return(t, "error")]
          /\ bookings' = bookings
       \/ LET r == RepoCancelBooking(task[t].bid)
          IN  /\ bookings' = r.rows
              /\ IF r.affected = 0
                 THEN task' = [task EXCEPT ![t] = Return(t, "already-cancelled")]
                 ELSE task' = [task EXCEPT ![t] = Return(t, "ok")]
    /\ UNCHANGED <<sched, fsQuota, fsQueue, muMap, muLocked, admin, issued, queueHigh, workers, adminLeft, hist, svc>>

\* Step 2: atomic cancel and rows-affected check
CancelBooking_Update(t) ==
    /\ task[t].pc = "x_update"
    /\ \/ /\ task' = [task EXCEPT ![t] = Return(t, "error")]
          /\ bookings' = bookings
       \/ LET r == RepoCancelBooking(task[t].bid)
          IN  /\ bookings' = r.rows
              /\ IF r.affected = 0
                 THEN task' = [task EXCEPT ![t] = Return(t, "already-cancelled")]
                 ELSE task' = [task EXCEPT ![t].pc = "r_getmu", ![t].result = "ok"]
    /\ UNCHANGED <<sched, fsQuota, fsQueue, muMap, muLocked, admin, issued, queueHigh, workers, adminLeft, hist, svc>>

\* RestoreQuota: mt := s.getScheduleMutex(scheduleID)
RestoreQuota_GetMutex(t) ==
    /\ task[t].pc = "r_getmu"
    /\ LET m == getScheduleMutex
       IN  /\ muMap' = m
           /\ task' = [task EXCEPT ![t].pc = "r_lock", ![t].mt = m,
                                   ![t].restoreCalls = @ + 1]
    /\ UNCHANGED <<sched, bookings, fsQuota, fsQueue, muLocked, admin, issued, queueHigh, workers, adminLeft, hist, svc>>

\* RestoreQuota: mt.mu.Lock()
RestoreQuota_Lock(t) ==
    /\ task[t].pc = "r_lock"
    /\ task[t].mt \notin muLocked
    /\ muLocked' = muLocked \cup {task[t].mt}
    /\ task' = [task EXCEPT ![t].pc = "r_incr"]
    /\ UNCHANGED <<sched, bookings, fsQuota, fsQueue, muMap, admin, issued, queueHigh, workers, adminLeft, hist, svc>>

\* a restore that also gives the queue number back
RestoreQuota_Incr_GiveBackNumber(t) ==
    /\ task[t].pc = "r_incr"
    /\ fsQuota' = Incr(fsQuota)
    /\ fsQueue' = Decr(fsQueue)
    /\ task' = [Touched(task, t) EXCEPT ![t].pc = "r_unlock", ![t].restoreOk = TRUE]
    /\ bookings' = IF task[t].op = "cancel"
                   THEN [bookings EXCEPT ![task[t].bid].restored = @ + 1]
                   ELSE bookings
    /\ UNCHANGED <<sched, muMap, muLocked, admin, issued, queueHigh, workers, adminLeft, hist, svc>>

\* RestoreQuota: redisClient.Incr(ctx, quotaKey) succeeded
RestoreQuota_Incr(t) ==
    /\ task[t].pc = "r_incr"
    /\ fsQuota' = Incr(fsQuota)
    /\ task' = [Touched(task, t) EXCEPT ![t].pc = "r_unlock", ![t].restoreOk = TRUE]
    /\ bookings' = IF task[t].op = "cancel"
                   THEN [bookings EXCEPT ![task[t].bid].restored = @ + 1]
                   ELSE bookings
    /\ UNCHANGED <<sched, fsQueue, muMap, muLocked, admin, issued, queueHigh, workers, adminLeft, hist, svc>>

\* a restore failure that is handed to the caller of cancel-booking
RestoreQuota_IncrFailed_Fatal(t) ==
    /\ task[t].pc = "r_incr"
    /\ task' = [task EXCEPT ![t].pc = "r_unlock",
                            ![t].result = IF task[t].op = "cancel" THEN "error" ELSE @]
    /\ UNCHANGED <<sched, bookings, fsQuota, fsQueue, muMap, muLocked, admin, issued, queueHigh, workers, adminLeft, hist, svc>>

\* a RestoreQuota that unlocks on its success path only
RestoreQuota_IncrFailed_NoUnlock(t) ==
    /\ task[t].pc = "r_incr"
    /\ task' = [task EXCEPT ![t] = [Return(t, task[t].result) EXCEPT !.mt = 0]]
    /\ UNCHANGED <<sched, bookings, fsQuota, fsQueue, muMap, muLocked, admin, issued, queueHigh, workers, adminLeft, hist, svc>>

\* RestoreQuota: redisClient.Incr returned an error
RestoreQuota_IncrFailed(t) ==
    /\ task[t].pc = "r_incr"
    /\ task' = [task EXCEPT ![t].pc = "r_unlock"]
    /\ UNCHANGED <<sched, bookings, fsQuota, fsQueue, muMap, muLocked, admin, issued, queueHigh, workers, adminLeft, hist, svc>>

\* RestoreQuota: deferred mt.mu.Unlock(), then the usecase returns
RestoreQuota_Unlock(t) ==
    /\ task[t].pc = "r_unlock"
    /\ muLocked' = muLocked \ {task[t].mt}
    /\ task' = [task EXCEPT ![t] = [Return(t, task[t].result) EXCEPT !.mt = 0]]
    /\ UNCHANGED <<sched, bookings, fsQuota, fsQueue, muMap, admin, issued, queueHigh, workers, adminLeft, hist, svc>>

\* The handler returns and the worker is free for the next request
Respond(t) ==
    /\ task[t].pc = "done"
    /\ task' = [task EXCEPT ![t] = IdleTask]
    /\ UNCHANGED <<sched, bookings, fsQuota, fsQueue, muMap, muLocked, admin, issued, queueHigh, workers, adminLeft, hist, svc>>

TaskNext ==
    \E t \in Tasks :
        \/ \E p \in Patients : StartCreateBooking(t, p)
        \/ CreateBooking_FindSchedule(t)
        \/ CreateBooking_FindExisting(t)
        \/ DecrQuotaAndIncrQueue(t)
        \/ DecrQuotaAndIncrQueue_Error(t)
        \/ DecrQuotaAndIncrQueue_ReplyLost(t)
        \/ CreateBooking_Insert(t)
        \/ CreateBooking_InsertFailed(t)
        \/ \E p \in Patients : \E b \in 0..Len(bookings) : StartCancelBooking(t, p, b)
        \/ CancelBooking_Find(t)
        \/ CancelBooking_Update(t)
        \/ RestoreQuota_GetMutex(t)
        \/ RestoreQuota_Lock(t)
        \/ RestoreQuota_Incr(t)
        \/ RestoreQuota_IncrFailed(t)
        \/ RestoreQuota_Unlock(t)
        \/ Respond(t)

\* ------------------------------------------- doctorScheduleUsecase task
AdminCall(pc, op, total, date, delta, resync) ==
    [IdleAdmin EXCEPT !.pc = pc, !.op = op, !.total = total, !.date = date,
                      !.delta = delta, !.resync = resync]

\* a usecase that hands the engine's error to its caller
AdminReturn_FailOnEngineError ==
    [IdleAdmin EXCEPT !.pc = "a_done", !.op = admin.op, !.total = admin.total,
                      !.date = admin.date, !.err = admin.err, !.clamped = admin.clamped,
                      !.result = IF admin.err THEN "error" ELSE "ok"]

\* the usecase returns: the engine's error was logged, the response is the
\* committed schedule and a nil error
AdminReturn == [IdleAdmin EXCEPT !.pc = "a_done", !.op = admin.op, !.total = admin.total,
                                 !.date = admin.date, !.err = admin.err,
                                 !.clamped = admin.clamped, !.result = "ok"]

\* scheduleRepo.Create / Update / Delete or tx.Commit() failed: the deferred
\* Rollback undoes the transaction and the usecase returns the error
AdminTxFailed(op) ==
    /\ admin.pc = "idle"
    /\ adminLeft > 0
    /\ sched.state = IF op = "create" THEN "none" ELSE "live"
    /\ admin' = [IdleAdmin EXCEPT !.pc = "a_done", !.op = op, !.result = "error"]
    /\ adminLeft' = adminLeft - 1
    /\ UNCHANGED <<sched, bookings, fsQuota, fsQueue, muMap, muLocked, task, issued, queueHigh, workers, hist, svc>>

\* the response is written; the administrator may send the next request
AdminRespond ==
    /\ admin.pc = "a_done"
    /\ admin' = IdleAdmin
    /\ hist' = IF hist.on
               THEN [hist EXCEPT !.ok = @ /\ ~admin.err /\ admin.result = "ok" /\ admin.date # "past",
                                 !.exact = @ /\ ~admin.clamped]
               ELSE hist
    /\ UNCHANGED <<sched, bookings, fsQuota, fsQueue, muMap, muLocked, task, issued, queueHigh, workers, adminLeft, svc>>

\* CreateSchedule: the transaction commits, then SyncScheduleQuota is called
\* with the new row's total quota and date
CreateSchedule(c, d) ==
    /\ admin.pc = "idle"
    /\ adminLeft > 0
    /\ sched.state = "none"
    /\ sched' = [state |-> "live", total |-> c, date |-> d]
    /\ admin' = AdminCall("s_getmu", "create", c, d, 0, FALSE)
    /\ adminLeft' = adminLeft - 1
    /\ UNCHANGED <<bookings, fsQuota, fsQueue, muMap, muLocked, task, issued, queueHigh, workers, hist, svc>>

\* an UpdateSchedule that rebuilds the keys on every change
UpdateSchedule_AlwaysResync(c, d) ==
    /\ admin.pc = "idle"
    /\ adminLeft > 0
    /\ sched.state = "live"
    /\ c # sched.total \/ d # sched.date
    /\ sched' = [state |-> "live", total |-> c, date |-> d]
    /\ admin' = AdminCall("d_getmu", "update", c, d, 0, TRUE)
    /\ adminLeft' = adminLeft - 1
    /\ UNCHANGED <<bookings, fsQuota, fsQueue, muMap, muLocked, task, issued, queueHigh, workers, hist, svc>>

\* UpdateSchedule: the transaction commits; a changed date leads to
\* DeleteScheduleKeys + SyncScheduleQuota, else a changed total quota leads to
\* UpdateScheduleQuotaDelta(new - old)
UpdateSchedule(c, d) ==
    /\ admin.pc = "idle"
    /\ adminLeft > 0
    /\ sched.state = "live"
    /\ c # sched.total \/ d # sched.date
    /\ sched' = [state |-> "live", total |-> c, date |-> d]
    /\ admin' = IF d # sched.date
                THEN AdminCall("d_getmu", "update", c, d, 0, TRUE)
                ELSE AdminCall("q_getmu", "update", c, d, c - sched.total, FALSE)
    /\ adminLeft' = adminLeft - 1
    /\ UNCHANGED <<bookings, fsQuota, fsQueue, muMap, muLocked, task, issued, queueHigh, workers, hist, svc>>

\* DeleteSchedule: bookings.schedule_id is ON DELETE RESTRICT, so the delete
\* commits only when the schedule has no booking row; then DeleteScheduleKeys
DeleteSchedule ==
    /\ admin.pc = "idle"
    /\ adminLeft > 0
    /\ sched.state = "live"
    /\ bookings = <<>>
    /\ sched' = [sched EXCEPT !.state = "deleted"]
    /\ admin' = AdminCall("d_getmu", "delete", 0, sched.date, 0, FALSE)
    /\ adminLeft' = adminLeft - 1
    /\ UNCHANGED <<bookings, fsQuota, fsQueue, muMap, muLocked, task, issued, queueHigh, workers, hist, svc>>

\* ---- SyncScheduleQuota
SyncScheduleQuota_GetMutex ==
    /\ admin.pc = "s_getmu"
    /\ LET m == getScheduleMutex
       IN  /\ muMap' = m
           /\ admin' = [admin EXCEPT !.pc = "s_lock", !.mt = m]
    /\ UNCHANGED <<sched, bookings, fsQuota, fsQueue, muLocked, task, issued, queueHigh, workers, adminLeft, hist, svc>>

\* mt.mu.Lock(), then the past-date check
SyncScheduleQuota_Lock ==
    /\ admin.pc = "s_lock"
    /\ admin.mt \notin muLocked
    /\ muLocked' = muLocked \cup {admin.mt}
    /\ admin' = [admin EXCEPT !.pc = IF admin.date = "past" THEN "s_unlock" ELSE "s_query"]
    /\ UNCHANGED <<sched, bookings, fsQuota, fsQueue, muMap, task, issued, queueHigh, workers, adminLeft, hist, svc>>

\* the COUNT / MAX query on bookings
SyncScheduleQuota_Query ==
    /\ admin.pc = "s_query"
    /\ \/ admin' = [admin EXCEPT !.pc = "s_exec", !.booked = SyncBookedCount,
                                 !.maxq = SyncMaxQueueNumber]
       \/ admin' = [admin EXCEPT !.pc = "s_unlock", !.err = TRUE]
    /\ UNCHANGED <<sched, bookings, fsQuota, fsQueue, muMap, muLocked, task, issued, queueHigh, workers, adminLeft, hist, svc>>

\* remainingQuota := totalQuota - bookedCount, clamped at 0
RemainingQuota(total, booked) == IF total - booked < 0 THEN 0 ELSE total - booked

\* TxPipeline: SET quota, SET queue
SyncScheduleQuota_Exec ==
    /\ admin.pc = "s_exec"
    /\ \/ /\ fsQuota' = Key(RemainingQuota(admin.total, admin.booked))
          /\ fsQueue' = Key(admin.maxq)
          /\ queueHigh' = IF admin.maxq > queueHigh THEN admin.maxq ELSE queueHigh
          /\ task' = Touched(task, 0)
          /\ admin' = [admin EXCEPT !.pc = "s_unlock", !.booked = 0, !.maxq = 0]
       \/ /\ UNCHANGED <<fsQuota, fsQueue, queueHigh, task>>
          /\ admin' = [admin EXCEPT !.pc = "s_unlock", !.booked = 0, !.maxq = 0, !.err = TRUE]
    /\ UNCHANGED <<sched, bookings, muMap, muLocked, issued, workers, adminLeft, hist, svc>>

\* a SyncScheduleQuota that returns with the mutex still locked
SyncScheduleQuota_Unlock_Leak ==
    /\ admin.pc = "s_unlock"
    /\ admin' = AdminReturn
    /\ UNCHANGED <<sched, bookings, fsQuota, fsQueue, muMap, muLocked, task, issued, queueHigh, workers, adminLeft, hist, svc>>

\* deferred mt.mu.Unlock()
SyncScheduleQuota_Unlock ==
    /\ admin.pc = "s_unlock"
    /\ muLocked' = muLocked \ {admin.mt}
    /\ admin' = AdminReturn
    /\ UNCHANGED <<sched, bookings, fsQuota, fsQueue, muMap, task, issued, queueHigh, workers, adminLeft, hist, svc>>

\* ---- UpdateScheduleQuotaDelta
UpdateScheduleQuotaDelta_GetMutex ==
    /\ admin.pc = "q_getmu"
    /\ LET m == getScheduleMutex
       IN  /\ muMap' = m
           /\ admin' = [admin EXCEPT !.pc = "q_lock", !.mt = m]
    /\ UNCHANGED <<sched, bookings, fsQuota, fsQueue, muLocked, task, issued, queueHigh, workers, adminLeft, hist, svc>>

\* mt.mu.Lock(), then the past-date check and the sign of delta
UpdateScheduleQuotaDelta_Lock ==
    /\ admin.pc = "q_lock"
    /\ admin.mt \notin muLocked
    /\ muLocked' = muLocked \cup {admin.mt}
    /\ admin' = [admin EXCEPT !.pc = IF admin.date = "past" THEN "q_unlock"
                                    ELSE IF admin.delta < 0 THEN "q_get" ELSE "q_incr"]
    /\ UNCHANGED <<sched, bookings, fsQuota, fsQueue, muMap, task, issued, queueHigh, workers, adminLeft, hist, svc>>

\* delta after the bounds validation against the value read by GET
ClampDelta(currentQuota, delta) == IF currentQuota + delta < 0 THEN -currentQuota ELSE delta

\* redisClient.Get(quotaKey).Int() for a negative delta
UpdateScheduleQuotaDelta_Get ==
    /\ admin.pc = "q_get"
    /\ \/ admin' = [admin EXCEPT !.pc = "q_incr", !.delta = ClampDelta(Val(fsQuota), admin.delta),
                                 !.clamped = (Val(fsQuota) + admin.delta < 0)]
       \/ admin' = [admin EXCEPT !.pc = "q_unlock", !.err = TRUE]
    /\ UNCHANGED <<sched, bookings, fsQuota, fsQueue, muMap, muLocked, task, issued, queueHigh, workers, adminLeft, hist, svc>>

\* a capacity change that writes the remaining quota it computes
UpdateScheduleQuotaDelta_IncrBy_AbsoluteSet ==
    /\ admin.pc = "q_incr"
    /\ \/ /\ fsQuota' = Key(RemainingQuota(sched.total, ActiveCount))
          /\ task' = Touched(task, 0)
          /\ admin' = [admin EXCEPT !.pc = "q_unlock"]
       \/ /\ UNCHANGED <<fsQuota, task>>
          /\ admin' = [admin EXCEPT !.pc = "q_unlock", !.err = TRUE]
    /\ UNCHANGED <<sched, bookings, fsQueue, muMap, muLocked, issued, queueHigh, workers, adminLeft, hist, svc>>

\* TxPipeline: INCRBY quota delta, EXPIRE
UpdateScheduleQuotaDelta_IncrBy ==
    /\ admin.pc = "q_incr"
    /\ \/ /\ fsQuota' = IncrBy(fsQuota, admin.delta)
          /\ task' = Touched(task, 0)
          /\ admin' = [admin EXCEPT !.pc = "q_unlock"]
       \/ /\ UNCHANGED <<fsQuota, task>>
          /\ admin' = [admin EXCEPT !.pc = "q_unlock", !.err = TRUE]
    /\ UNCHANGED <<sched, bookings, fsQueue, muMap, muLocked, issued, queueHigh, workers, adminLeft, hist, svc>>

UpdateScheduleQuotaDelta_Unlock ==
    /\ admin.pc = "q_unlock"
    /\ muLocked' = muLocked \ {admin.mt}
    /\ admin' = AdminReturn
    /\ UNCHANGED <<sched, bookings, fsQuota, fsQueue, muMap, task, issued, queueHigh, workers, adminLeft, hist, svc>>

\* ---- DeleteScheduleKeys
DeleteScheduleKeys_GetMutex ==
    /\ admin.pc = "d_getmu"
    /\ LET m == getScheduleMutex
       IN  /\ muMap' = m
           /\ admin' = [admin EXCEPT !.pc = "d_lock", !.mt = m]
    /\ UNCHANGED <<sched, bookings, fsQuota, fsQueue, muLocked, task, issued, queueHigh, workers, adminLeft, hist, svc>>

DeleteScheduleKeys_Lock ==
    /\ admin.pc = "d_lock"
    /\ admin.mt \notin muLocked
    /\ muLocked' = muLocked \cup {admin.mt}
    /\ admin' = [admin EXCEPT !.pc = "d_del"]
    /\ UNCHANGED <<sched, bookings, fsQuota, fsQueue, muMap, task, issued, queueHigh, workers, adminLeft, hist, svc>>

\* redisClient.Del(quotaKey, queueKey)
DeleteScheduleKeys_Del ==
    /\ admin.pc = "d_del"
    /\ \/ /\ fsQuota' = Nil
          /\ fsQueue' = Nil
          /\ task' = Touched(task, 0)
          /\ admin' = [admin EXCEPT !.pc = "d_unlock"]
       \/ /\ UNCHANGED <<fsQuota, fsQueue, task>>
          /\ admin' = [admin EXCEPT !.pc = "d_unlock", !.err = TRUE]
    /\ UNCHANGED <<sched, bookings, muMap, muLocked, issued, queueHigh, workers, adminLeft, hist, svc>>

\* deferred: mt.mu.Unlock() ...
DeleteScheduleKeys_Unlock ==
    /\ admin.pc = "d_unlock"
    /\ muLocked' = muLocked \ {admin.mt}
    /\ admin' = [admin EXCEPT !.pc = "d_evict", !.mt = 0]
    /\ UNCHANGED <<sched, bookings, fsQuota, fsQueue, muMap, task, issued, queueHigh, workers, adminLeft, hist, svc>>

\* ... then s.scheduleMu.Delete(scheduleID); UpdateSchedule goes on to
\* SyncScheduleQuota when the date changed
DeleteScheduleKeys_Evict ==
    /\ admin.pc = "d_evict"
    /\ muMap' = 0
    /\ admin' = IF admin.resync THEN [admin EXCEPT !.pc = "s_getmu", !.resync = FALSE, !.err = FALSE]
                ELSE AdminReturn
    /\ UNCHANGED <<sched, bookings, fsQuota, fsQueue, muLocked, task, issued, queueHigh, workers, adminLeft, hist, svc>>

AdminNext ==
    \/ \E op \in {"create", "update", "delete"} : AdminTxFailed(op)
    \/ AdminRespond
    \/ \E c \in Capacities : \E d \in Dates : CreateSchedule(c, d)
    \/ \E c \in Capacities : \E d \in Dates : UpdateSchedule(c, d)
    \/ DeleteSchedule
    \/ SyncScheduleQuota_GetMutex
    \/ SyncScheduleQuota_Lock
    \/ SyncScheduleQuota_Query
    \/ SyncScheduleQuota_Exec
    \/ SyncScheduleQuota_Unlock
    \/ UpdateScheduleQuotaDelta_GetMutex
    \/ UpdateScheduleQuotaDelta_Lock
    \/ UpdateScheduleQuotaDelta_Get
    \/ UpdateScheduleQuotaDelta_IncrBy
    \/ UpdateScheduleQuotaDelta_Unlock
    \/ DeleteScheduleKeys_GetMutex
    \/ DeleteScheduleKeys_Lock
    \/ DeleteScheduleKeys_Del
    \/ DeleteScheduleKeys_Unlock
    \/ DeleteScheduleKeys_Evict

Next == TaskNext \/ AdminNext

Spec == Init /\ [][Next]_vars

\* ---- cancellations against a schedule that has bookings, with a working
\* fast store on the restore path and the administrator updating the
\* schedule, under the scheduling the runtime gives: a goroutine that can
\* take a step takes one, and a goroutine waiting in Lock() gets the mutex
\* once it stays free (sync.Mutex hands a starving waiter the lock)
BookedRows(n) == [i \in 1..n |-> NewBooking(IF i = 1 THEN "p1" ELSE "p2", i)]

LiveInit ==
    /\ \E c \in Capacities : \E n \in 1..2 :
          /\ n <= c
          /\ sched = [state |-> "live", total |-> c, date |-> "d1"]
          /\ bookings = BookedRows(n)
          /\ fsQuota = Key(c - n)
          /\ fsQueue = Key(n)
          /\ issued = [i \in 1..n |-> i]
          /\ queueHigh = n
    /\ muMap = 0
    /\ muLocked = {}
    /\ task = [t \in Tasks |-> IdleTask]
    /\ admin = IdleAdmin
    /\ \/ workers = Tasks /\ adminLeft = 0
       \/ workers = {1} /\ adminLeft = MaxAdminOps
    /\ hist = NoHist
    /\ svc = IdleSvc

CancelStep(t) ==
    \/ CancelBooking_Find(t)
    \/ CancelBooking_Update(t)
    \/ RestoreQuota_GetMutex(t)
    \/ RestoreQuota_Lock(t)
    \/ RestoreQuota_Incr(t)
    \/ RestoreQuota_Unlock(t)
    \/ Respond(t)

EngineStep ==
    \/ AdminRespond
    \/ SyncScheduleQuota_GetMutex
    \/ SyncScheduleQuota_Lock
    \/ SyncScheduleQuota_Query
    \/ SyncScheduleQuota_Exec
    \/ SyncScheduleQuota_Unlock
    \/ UpdateScheduleQuotaDelta_GetMutex
    \/ UpdateScheduleQuotaDelta_Lock
    \/ UpdateScheduleQuotaDelta_Get
    \/ UpdateScheduleQuotaDelta_IncrBy
    \/ UpdateScheduleQuotaDelta_Unlock
    \/ DeleteScheduleKeys_GetMutex
    \/ DeleteScheduleKeys_Lock
    \/ DeleteScheduleKeys_Del
    \/ DeleteScheduleKeys_Unlock
    \/ DeleteScheduleKeys_Evict

LiveNext ==
    \/ \E t \in Tasks : \E p \in Patients : \E b \in 0..Len(bookings) : StartCancelBooking(t, p, b)
    \/ \E t \in Tasks : CancelStep(t)
    \/ \E c \in Capacities : \E d \in Dates : UpdateSchedule(c, d)
    \/ EngineStep

FairSpec ==
    /\ LiveInit /\ [][LiveNext]_vars
    /\ \A t \in Tasks : WF_vars(CancelStep(t))
    /\ WF_vars(EngineStep)

\* ---- capacity changes of a schedule that has bookings, alone or while one
\* worker serves create-booking requests whose inserts succeed
DeltaInit ==
    /\ \E c \in Capacities : \E n \in 0..2 :
          /\ n <= c
          /\ sched = [state |-> "live", total |-> c, date |-> "d1"]
          /\ bookings = BookedRows(n)
          /\ fsQuota = Key(c - n)
          /\ fsQueue = Key(n)
          /\ issued = [i \in 1..n |-> i]
          /\ queueHigh = n
          /\ hist = [NoHist EXCEPT !.on = TRUE, !.q0 = c - n, !.t0 = c, !.i0 = n, !.a0 = n]
    /\ muMap = 0
    /\ muLocked = {}
    /\ task = [t \in Tasks |-> IdleTask]
    /\ admin = IdleAdmin
    /\ workers \in {{}, {1}}
    /\ adminLeft = MaxAdminOps + 1
    /\ svc = IdleSvc

CreateStep(t) ==
    \/ CreateBooking_FindSchedule(t)
    \/ CreateBooking_FindExisting(t)
    \/ DecrQuotaAndIncrQueue(t)
    \/ DecrQuotaAndIncrQueue_Error(t)
    \/ CreateBooking_Insert(t)
    \/ Respond(t)

DeltaNext ==
    \/ \E t \in Tasks : \E p \in Patients : StartCreateBooking(t, p)
    \/ \E t \in Tasks : CreateStep(t)
    \/ \E c \in Capacities : UpdateSchedule(c, sched.date)
    \/ UpdateScheduleQuotaDelta_GetMutex
    \/ UpdateScheduleQuotaDelta_Lock
    \/ UpdateScheduleQuotaDelta_Get
    \/ UpdateScheduleQuotaDelta_IncrBy
    \/ UpdateScheduleQuotaDelta_Unlock
    \/ AdminRespond

DeltaSpec == DeltaInit /\ [][DeltaNext]_vars

\* a bookings table as earlier runs can have left it: up to two rows, queue
\* numbers in insertion order, each row pending or cancelled
StartupRow(i, st) ==
    [NewBooking(IF i = 1 THEN "p1" ELSE "p2", i) EXCEPT
        !.status = st,
        !.hits = IF st = "cancelled" THEN 1 ELSE 0,
        !.restored = IF st = "cancelled" THEN 1 ELSE 0]
StartupTables ==
    {<<>>} \cup {<<StartupRow(1, a)>> : a \in {"pending", "cancelled"}}
           \cup {<<StartupRow(1, a), StartupRow(2, b)>> : a \in {"pending", "cancelled"},
                                                           b \in {"pending", "cancelled"}}

\* ---- sync-schedule calls on a schedule, one after the other, with one
\* worker serving create-booking requests whose inserts succeed in between;
\* a call and a request never overlap
SyncScheduleQuota_Call ==
    /\ admin.pc = "idle"
    /\ adminLeft > 0
    /\ sched.state = "live"
    /\ \A t \in Tasks : task[t].pc = "idle"
    /\ admin' = AdminCall("s_getmu", "sync", sched.total, sched.date, 0, FALSE)
    /\ adminLeft' = adminLeft - 1
    /\ UNCHANGED <<sched, bookings, fsQuota, fsQueue, muMap, muLocked, task, issued, queueHigh, workers, hist, svc>>

RoundTripInit ==
    /\ \E c \in Capacities :
          /\ sched = [state |-> "live", total |-> c, date |-> "d1"]
          /\ admin = AdminCall("s_getmu", "sync", c, "d1", 0, FALSE)
    /\ bookings \in StartupTables
    /\ \/ fsQuota = Nil /\ fsQueue = Nil
       \/ fsQuota = Key(MaxCap) /\ fsQueue = Key(0)
    /\ muMap = 0
    /\ muLocked = {}
    /\ task = [t \in Tasks |-> IdleTask]
    /\ issued = <<>>
    /\ queueHigh = Val(fsQueue)
    /\ workers = {1}
    /\ adminLeft = MaxAdminOps
    /\ hist = [NoHist EXCEPT !.on = TRUE, !.q0 = Val(fsQuota), !.t0 = sched.total,
                             !.a0 = ActiveCount]
    /\ svc = IdleSvc

RoundTripNext ==
    \/ admin.pc = "idle" /\ \E t \in Tasks : \E p \in Patients : StartCreateBooking(t, p)
    \/ admin.pc = "idle" /\ \E t \in Tasks : CreateStep(t)
    \/ SyncScheduleQuota_Call
    \/ SyncScheduleQuota_GetMutex
    \/ SyncScheduleQuota_Lock
    \/ SyncScheduleQuota_Query
    \/ SyncScheduleQuota_Exec
    \/ SyncScheduleQuota_Unlock
    \/ AdminRespond

RoundTripSpec == RoundTripInit /\ [][RoundTripNext]_vars

\* ---- a burst: more create-booking requests than the capacity, by distinct
\* patients, arrive together at a freshly synced schedule without bookings
BurstSize == MaxCap + 1
BurstTasks == 1..BurstSize
BurstPatient(t) == "p" \o ToString(t)

BurstInit ==
    /\ \E c \in Capacities :
          /\ sched = [state |-> "live", total |-> c, date |-> "d1"]
          /\ fsQuota = Key(c)
    /\ fsQueue = Key(0)
    /\ bookings = <<>>
    /\ muMap = 0
    /\ muLocked = {}
    /\ task = [t \in BurstTasks |->
                 [IdleTask EXCEPT !.pc = "c_find", !.op = "create", !.patient = BurstPatient(t)]]
    /\ admin = IdleAdmin
    /\ issued = <<>>
    /\ queueHigh = 0
    /\ workers = BurstTasks
    /\ adminLeft = 0
    /\ hist = NoHist
    /\ svc = IdleSvc

\* the requests run to their result; the responses stay to be compared
BurstNext ==
    \E t \in BurstTasks :
        \/ CreateBooking_FindSchedule(t)
        \/ CreateBooking_FindExisting(t)
        \/ DecrQuotaAndIncrQueue(t)
        \/ DecrQuotaAndIncrQueue_Error(t)
        \/ CreateBooking_Insert(t)

BurstSpec == BurstInit /\ [][BurstNext]_vars

\* ---- a create-booking request of a patient without a booking, on a
\* schedule whose keys are in step with its rows, and, once that request has
\* returned with a failed insert, the same patient's next request
RetryInit ==
    /\ \E c \in Capacities : \E n \in 0..1 :
          /\ n <= c
          /\ sched = [state |-> "live", total |-> c, date |-> "d1"]
          /\ bookings = BookedRows(n)
          /\ fsQuota = Key(c - n)
          /\ fsQueue = Key(n)
          /\ queueHigh = n
          /\ hist = [NoHist EXCEPT !.on = TRUE, !.q0 = c - n, !.t0 = c, !.a0 = n]
    /\ muMap = 0
    /\ muLocked = {}
    /\ task = [t \in Tasks |-> IF t = 1
                                THEN [IdleTask EXCEPT !.pc = "c_find", !.op = "create", !.patient = "p2"]
                                ELSE IdleTask]
    /\ admin = IdleAdmin
    /\ issued = <<>>
    /\ workers = Tasks
    /\ adminLeft = 0
    /\ svc = IdleSvc

\* the first request returned an error of bookingRepo.Create
InsertFailedReturned == task[1].pc = "done" /\ task[1].insertErr # "none"

RetryRequest ==
    /\ InsertFailedReturned
    /\ StartCreateBooking(2, task[1].patient)

RetryNext ==
    \/ RetryRequest
    \/ \E t \in Tasks :
          \/ CreateBooking_FindSchedule(t)
          \/ CreateBooking_FindExisting(t)
          \/ DecrQuotaAndIncrQueue(t)
          \/ DecrQuotaAndIncrQueue_Error(t)
          \/ CreateBooking_Insert(t)
          \/ CreateBooking_InsertFailed(t)
          \/ RestoreQuota_GetMutex(t)
          \/ RestoreQuota_Lock(t)
          \/ RestoreQuota_Incr(t)
          \/ RestoreQuota_IncrFailed(t)
          \/ RestoreQuota_Unlock(t)

RetrySpec == RetryInit /\ [][RetryNext]_vars

\* ---- the cleanup goroutine of RedisSyncService
\* cleanupMutexMapLoop: case <-s.stopChan, return, deferred wg.Done()
cleanupMutexMapLoop_Stop ==
    /\ svc.loop = "select"
    /\ svc.closed
    /\ svc' = [svc EXCEPT !.loop = "exited", !.wg = @ - 1]
    /\ UNCHANGED <<sched, bookings, fsQuota, fsQueue, muMap, muLocked, task, admin, issued, queueHigh, workers, adminLeft, hist>>

\* case <-ticker.C: cleanupStaleMutexes ranges over scheduleMu and finds the
\* entry of S
cleanupStaleMutexes_Range ==
    /\ svc.loop = "select"
    /\ muMap # 0
    /\ svc' = [svc EXCEPT !.loop = "trylock", !.mt = muMap]
    /\ UNCHANGED <<sched, bookings, fsQuota, fsQueue, muMap, muLocked, task, admin, issued, queueHigh, workers, adminLeft, hist>>

\* mt.mu.TryLock(): a held mutex is skipped and the pass ends
cleanupStaleMutexes_TryLock ==
    /\ svc.loop = "trylock"
    /\ IF svc.mt \in muLocked
       THEN /\ svc' = [svc EXCEPT !.loop = "select", !.mt = 0]
            /\ muLocked' = muLocked
       ELSE /\ svc' = [svc EXCEPT !.loop = "check"]
            /\ muLocked' = muLocked \cup {svc.mt}
    /\ UNCHANGED <<sched, bookings, fsQuota, fsQueue, muMap, task, admin, issued, queueHigh, workers, adminLeft, hist>>

\* mt.lastUsed.Load() < cutoffTime: time is not part of the model, both
\* outcomes are open (an entry is below the cutoff after ten idle minutes,
\* and a new entry carries lastUsed 0 until its acquirer has stamped it);
\* then s.scheduleMu.Delete(scheduleID), whatever the entry is by now
cleanupStaleMutexes_Check ==
    /\ svc.loop = "check"
    /\ \/ muMap' = 0
       \/ muMap' = muMap
    /\ svc' = [svc EXCEPT !.loop = "unlock"]
    /\ UNCHANGED <<sched, bookings, fsQuota, fsQueue, muLocked, task, admin, issued, queueHigh, workers, adminLeft, hist>>

\* mt.mu.Unlock(); the pass is over
cleanupStaleMutexes_Unlock ==
    /\ svc.loop = "unlock"
    /\ muLocked' = muLocked \ {svc.mt}
    /\ svc' = [svc EXCEPT !.loop = "select", !.mt = 0]
    /\ UNCHANGED <<sched, bookings, fsQuota, fsQueue, muMap, task, admin, issued, queueHigh, workers, adminLeft, hist>>

\* the steps of a pass once the ticker has fired
CleanupPass ==
    \/ cleanupStaleMutexes_TryLock
    \/ cleanupStaleMutexes_Check
    \/ cleanupStaleMutexes_Unlock

\* ---- RedisSyncService.Stop, called by caller c
\* s.stopped.CompareAndSwap(false, true); the loser returns at once
Stop_CompareAndSwap(c) ==
    /\ svc.stop[c] = "idle"
    /\ svc' = IF svc.stopped
              THEN [svc EXCEPT !.stop[c] = "returned"]
              ELSE [svc EXCEPT !.stopped = TRUE, !.stop[c] = "close"]
    /\ UNCHANGED <<sched, bookings, fsQuota, fsQueue, muMap, muLocked, task, admin, issued, queueHigh, workers, adminLeft, hist>>

\* close(s.stopChan)
Stop_Close(c) ==
    /\ svc.stop[c] = "close"
    /\ svc' = [svc EXCEPT !.closed = TRUE, !.stop[c] = "wait"]
    /\ UNCHANGED <<sched, bookings, fsQuota, fsQueue, muMap, muLocked, task, admin, issued, queueHigh, workers, adminLeft, hist>>

\* s.wg.Wait(), then the log line and the return
Stop_Wait(c) ==
    /\ svc.stop[c] = "wait"
    /\ svc.wg = 0
    /\ svc' = [svc EXCEPT !.stop[c] = "returned"]
    /\ UNCHANGED <<sched, bookings, fsQuota, fsQueue, muMap, muLocked, task, admin, issued, queueHigh, workers, adminLeft, hist>>

StopStep(c) ==
    \/ Stop_CompareAndSwap(c)
    \/ Stop_Close(c)
    \/ Stop_Wait(c)

\* ---- the mutex table under cancellations, the administrator's engine
\* calls with their error paths, and the cleanup passes.  A goroutine that
\* can take a step takes one; a waiter in Lock() gets the mutex although
\* cleanup passes keep taking it in between (sync.Mutex hands a starving
\* waiter the lock, and TryLock fails on a mutex in starvation mode)
MutexTaskStep(t) ==
    \/ CancelStep(t)
    \/ RestoreQuota_IncrFailed(t)

\* a schedule with MaxCap capacity and two booked rows (one when MaxCap is 1)
MutexInit ==
    /\ LiveInit
    /\ sched.total = MaxCap
    /\ Len(bookings) = IF MaxCap >= 2 THEN 2 ELSE 1

MutexNext ==
    \/ \E t \in Tasks : \E b \in BookingIds : StartCancelBooking(t, bookings[b].patient, b)
    \/ \E t \in Tasks : MutexTaskStep(t)
    \/ \E c \in Capacities : UpdateSchedule(c, sched.date)
    \/ \E d \in Dates : UpdateSchedule(sched.total, d)
    \/ EngineStep
    \/ cleanupStaleMutexes_Range
    \/ CleanupPass

MutexSpec ==
    /\ MutexInit /\ [][MutexNext]_vars
    /\ \A t \in Tasks : SF_vars(MutexTaskStep(t))
    /\ SF_vars(EngineStep)
    /\ WF_vars(CleanupPass)

\* ---- shutdown: Stop is called, once or by two callers, while one worker
\* serves cancellations and the cleanup loop runs.  The loop is back at its
\* select between two ticks, so it sees the closed channel
StopInit ==
    /\ \E c \in Capacities : \E n \in 1..2 :
          /\ n <= c
          /\ sched = [state |-> "live", total |-> c, date |-> "d1"]
          /\ bookings = BookedRows(n)
          /\ fsQuota = Key(c - n)
          /\ fsQueue = Key(n)
          /\ issued = [i \in 1..n |-> i]
          /\ queueHigh = n
    /\ muMap = 0
    /\ muLocked = {}
    /\ task = [t \in Tasks |-> IdleTask]
    /\ admin = IdleAdmin
    /\ workers = {1}
    /\ adminLeft = 0
    /\ hist = NoHist
    /\ svc = IdleSvc

StopNext ==
    \/ \E p \in Patients : \E b \in 0..Len(bookings) : StartCancelBooking(1, p, b)
    \/ MutexTaskStep(1)
    \/ cleanupStaleMutexes_Range
    \/ CleanupPass
    \/ cleanupMutexMapLoop_Stop
    \/ \E c \in Stoppers : StopStep(c)

StopSpec ==
    /\ StopInit /\ [][StopNext]_vars
    /\ WF_vars(MutexTaskStep(1))
    /\ WF_vars(CleanupPass)
    /\ SF_vars(cleanupMutexMapLoop_Stop)
    /\ \A c \in Stoppers : WF_vars(Stop_Close(c) \/ Stop_Wait(c))

\* ---- cancellations whose restore can fail, next to create-booking
\* requests whose inserts succeed; the administrator is away
LeakInit == LiveInit /\ adminLeft = 0

LeakNext ==
    \/ \E t \in Tasks : \E p \in Patients : \E b \in 0..Len(bookings) : StartCancelBooking(t, p, b)
    \/ \E t \in Tasks : MutexTaskStep(t)
    \/ \E t \in Tasks : \E p \in Patients : StartCreateBooking(t, p)
    \/ \E t \in Tasks : CreateStep(t)

LeakSpec == LeakInit /\ [][LeakNext]_vars

\* ---- create-booking and cancel-booking requests on a schedule whose keys
\* are in step with its rows: any number of them, racing on all workers, with
\* the durable store failing at will; the fast store answers every call and
\* the administrator is away
ServeInit ==
    /\ \E c \in Capacities : \E n \in 0..2 :
          /\ n <= c
          /\ sched = [state |-> "live", total |-> c, date |-> "d1"]
          /\ bookings = BookedRows(n)
          /\ fsQuota = Key(c - n)
          /\ fsQueue = Key(n)
          /\ issued = [i \in 1..n |-> i]
          /\ queueHigh = n
    /\ muMap = 0
    /\ muLocked = {}
    /\ task = [t \in Tasks |-> IdleTask]
    /\ admin = IdleAdmin
    /\ workers = Tasks
    /\ adminLeft = 0
    /\ hist = NoHist
    /\ svc = IdleSvc

ServeNext ==
    \E t \in Tasks :
        \/ \E p \in Patients : StartCreateBooking(t, p)
        \/ CreateBooking_FindSchedule(t)
        \/ CreateBooking_FindExisting(t)
        \/ DecrQuotaAndIncrQueue(t)
        \/ CreateBooking_Insert(t)
        \/ CreateBooking_InsertFailed(t)
        \/ \E p \in Patients : \E b \in 0..Len(bookings) : StartCancelBooking(t, p, b)
        \/ CancelBooking_Find(t)
        \/ CancelBooking_Update(t)
        \/ RestoreQuota_GetMutex(t)
        \/ RestoreQuota_Lock(t)
        \/ RestoreQuota_Incr(t)
        \/ RestoreQuota_Unlock(t)
        \/ Respond(t)

ServeSpec == ServeInit /\ [][ServeNext]_vars

\* ---- one patient without a booking sends two create-booking requests for
\* the schedule at the same time; the keys are in step with the rows and the
\* fast store answers every call.  The requests run to their result; the
\* responses stay to be compared
DoubleInit ==
    /\ \E c \in Capacities : \E n \in 0..1 :
          /\ n <= c
          /\ sched = [state |-> "live", total |-> c, date |-> "d1"]
          /\ bookings = BookedRows(n)
          /\ fsQuota = Key(c - n)
          /\ fsQueue = Key(n)
          /\ queueHigh = n
          /\ hist = [NoHist EXCEPT !.on = TRUE, !.q0 = c - n, !.t0 = c, !.a0 = n]
    /\ muMap = 0
    /\ muLocked = {}
    /\ task = [t \in Tasks |-> [IdleTask EXCEPT !.pc = "c_find", !.op = "create", !.patient = "p2"]]
    /\ admin = IdleAdmin
    /\ issued = <<>>
    /\ workers = Tasks
    /\ adminLeft = 0
    /\ svc = IdleSvc

DoubleNext ==
    \E t \in Tasks :
        \/ CreateBooking_FindSchedule(t)
        \/ CreateBooking_FindExisting(t)
        \/ DecrQuotaAndIncrQueue(t)
        \/ CreateBooking_Insert(t)
        \/ CreateBooking_InsertFailed(t)
        \/ RestoreQuota_GetMutex(t)
        \/ RestoreQuota_Lock(t)
        \/ RestoreQuota_Incr(t)
        \/ RestoreQuota_Unlock(t)

DoubleSpec == DoubleInit /\ [][DoubleNext]_vars

\* ---- process start: SyncOnStartup, then the HTTP server
\* the durable store is whatever earlier runs left, the fast store is flushed
\* or stale, the main goroutine is about to call SyncOnStartup and the server
\* does not listen yet
StartupInit ==
    /\ \/ /\ sched = [state |-> "none", total |-> 0, date |-> "d1"]
          /\ bookings = <<>>
       \/ /\ \E c \in Capacities : \E d \in Dates :
                sched = [state |-> "live", total |-> c, date |-> d]
          /\ bookings \in StartupTables
    /\ \/ fsQuota = Nil /\ fsQueue = Nil
       \/ fsQuota = Key(MaxCap) /\ fsQueue = Key(0)
    /\ muMap = 0
    /\ muLocked = {}
    /\ task = [t \in Tasks |-> IdleTask]
    /\ admin = [IdleAdmin EXCEPT !.pc = "u_ping", !.op = "startup"]
    /\ issued = <<>>
    /\ queueHigh = Val(fsQueue)
    /\ workers = {}
    /\ adminLeft = 0
    /\ hist = NoHist
    /\ svc = IdleSvc

StartupReturn(res) == [IdleAdmin EXCEPT !.pc = "a_done", !.op = "startup", !.result = res]

\* redisClient.Ping
SyncOnStartup_Ping ==
    /\ admin.pc = "u_ping"
    /\ \/ admin' = [admin EXCEPT !.pc = "u_query"]
       \/ admin' = StartupReturn("error")
    /\ UNCHANGED <<sched, bookings, fsQuota, fsQueue, muMap, muLocked, task, issued, queueHigh, workers, adminLeft, hist, svc>>

\* the batch query: schedules with schedule_date >= today LEFT JOIN bookings;
\* remaining_quota = total_quota - COUNT(non-cancelled),
\* max_queue_number = COALESCE(MAX(bookings.queue_number), 0)
SyncOnStartup_Query ==
    /\ admin.pc = "u_query"
    /\ \/ admin' = StartupReturn("error")
       \/ /\ ~(sched.state = "live" /\ sched.date # "past")
          /\ admin' = StartupReturn("ok")
       \/ /\ sched.state = "live" /\ sched.date # "past"
          /\ admin' = [admin EXCEPT !.pc = "u_exec", !.total = sched.total,
                                    !.remaining = sched.total - ActiveCount,
                                    !.maxq = SetMax({bookings[b].queue : b \in BookingIds})]
    /\ UNCHANGED <<sched, bookings, fsQuota, fsQueue, muMap, muLocked, task, issued, queueHigh, workers, adminLeft, hist, svc>>

\* a startup sync that writes the keys of a schedule only when they are absent
SyncOnStartup_Exec_KeepExisting ==
    /\ admin.pc = "u_exec"
    /\ \/ /\ fsQuota' = IF fsQuota = Nil THEN Key(admin.remaining) ELSE fsQuota
          /\ fsQueue' = IF fsQueue = Nil THEN Key(admin.maxq) ELSE fsQueue
          /\ queueHigh' = IF Val(fsQueue') > queueHigh THEN Val(fsQueue') ELSE queueHigh
          /\ task' = Touched(task, 0)
          /\ admin' = StartupReturn("ok")
       \/ /\ UNCHANGED <<fsQuota, fsQueue, queueHigh, task>>
          /\ admin' = StartupReturn("error")
    /\ UNCHANGED <<sched, bookings, muMap, muLocked, issued, workers, adminLeft, hist, svc>>

\* the batch's TxPipeline: SET quota, SET queue; the batch is the last one
SyncOnStartup_Exec ==
    /\ admin.pc = "u_exec"
    /\ \/ /\ fsQuota' = Key(admin.remaining)
          /\ fsQueue' = Key(admin.maxq)
          /\ queueHigh' = IF admin.maxq > queueHigh THEN admin.maxq ELSE queueHigh
          /\ task' = Touched(task, 0)
          /\ admin' = StartupReturn("ok")
       \/ /\ UNCHANGED <<fsQuota, fsQueue, queueHigh, task>>
          /\ admin' = StartupReturn("error")
    /\ UNCHANGED <<sched, bookings, muMap, muLocked, issued, workers, adminLeft, hist, svc>>

\* a server that listens while SyncOnStartup is still running
AppRun_NoWait ==
    /\ workers = {}
    /\ workers' = {1}
    /\ UNCHANGED <<sched, bookings, fsQuota, fsQueue, muMap, muLocked, task, admin, issued, queueHigh, adminLeft, hist, svc>>

\* the server starts to listen once SyncOnStartup has returned
AppRun ==
    /\ workers = {}
    /\ admin.op = "startup" /\ admin.pc = "a_done"
    /\ workers' = {1}
    /\ admin' = IdleAdmin
    /\ UNCHANGED <<sched, bookings, fsQuota, fsQueue, muMap, muLocked, task, issued, queueHigh, adminLeft, hist, svc>>

StartupNext ==
    \/ SyncOnStartup_Ping
    \/ SyncOnStartup_Query
    \/ SyncOnStartup_Exec
    \/ AppRun
    \/ TaskNext

StartupSpec == StartupInit /\ [][StartupNext]_vars

\* ---- crash and restart: the process serves requests with every failure
\* of the stores, dies at any moment and is started again.  Both stores keep
\* their contents; the goroutines, the mutex table and the cleanup loop of
\* the dead process are gone; the new process runs SyncOnStartup before it
\* listens.  hist keeps the quota, the total and the active count the crash
\* left behind
Crash ==
    /\ workers # {}
    /\ task' = [t \in Tasks |-> IdleTask]
    /\ muMap' = 0
    /\ muLocked' = {}
    /\ svc' = IdleSvc
    /\ workers' = {}
    /\ admin' = [IdleAdmin EXCEPT !.pc = "u_ping", !.op = "startup"]
    /\ hist' = [NoHist EXCEPT !.on = TRUE, !.q0 = Val(fsQuota), !.t0 = sched.total,
                              !.a0 = ActiveCount]
    /\ UNCHANGED <<sched, bookings, fsQuota, fsQueue, issued, queueHigh, adminLeft>>

RestartInit == Init /\ sched.state = "live" /\ adminLeft = 0

RestartNext ==
    \/ TaskNext
    \/ Crash
    \/ SyncOnStartup_Ping
    \/ SyncOnStartup_Query
    \/ SyncOnStartup_Exec
    \/ AppRun

RestartSpec == RestartInit /\ [][RestartNext]_vars

\* =================================================================== claims
Live == sched.state = "live"
Done(t) == task[t].pc = "done"

\* C1: no oversell -- in every reachable state the number of non-cancelled
\* booking rows of the schedule is at most its total capacity.
C1_NoOversell == Live => ActiveCount <= sched.total

\* C2: the queue numbers returned by successful reservations over the
\* lifetime of the schedule are strictly increasing in reservation order
\* (hence pairwise distinct).
C2_QueueNumbersStrictlyIncreasing ==
    \A i \in 1..Len(issued) : \A j \in 1..Len(issued) :
        i < j => issued[i] < issued[j]

\* C3: for every patient there is at most one non-cancelled booking row of
\* the schedule, also when several requests passed the early lookup.
C3_OneActiveBookingPerPatient ==
    \A p \in Patients : Cardinality(FindByPatientAndSchedule(p)) <= 1

\* a request lost against the unique index after passing the lookup, while
\* the winner's row is active
C3_Witness ==
    \E t \in Tasks : /\ Done(t) /\ task[t].insertErr = "unique"
                     /\ FindByPatientAndSchedule(task[t].patient) # {}

\* the step in which task t's reserve-slot call returns
ReserveReturns(t) == task[t].pc = "c_reserve" /\ task'[t].pc # "c_reserve"

\* C4: each reserve-slot call either takes quota - 1 and queue + 1 together
\* and returns the new queue value, or (the decrement would go negative)
\* changes neither value and returns quota-full; a call that ends in a
\* transport error either did not run or ran as one of these two.  No state
\* shows the decrement without the queue increment.
C4_ReserveAtomic ==
    [][\A t \in Tasks : ReserveReturns(t) =>
          \/ /\ task'[t].pc = "c_insert"
             /\ Val(fsQuota') = Val(fsQuota) - 1
             /\ Val(fsQueue') = Val(fsQueue) + 1
             /\ task'[t].queueNumber = Val(fsQueue')
          \/ /\ task'[t].result = "quota-full"
             /\ Val(fsQuota) - 1 < 0
             /\ Val(fsQuota') = Val(fsQuota)
             /\ Val(fsQueue') = Val(fsQueue)
          \/ /\ task'[t].result = "error"
             /\ \/ fsQuota' = fsQuota /\ fsQueue' = fsQueue
                \/ /\ Val(fsQuota') = Val(fsQuota) - 1
                   /\ Val(fsQueue') = Val(fsQueue) + 1
                \/ /\ Val(fsQuota) - 1 < 0
                   /\ Val(fsQuota') = Val(fsQuota)
                   /\ Val(fsQueue') = Val(fsQueue)]_vars

\* one task holds a fresh reservation while another was told quota-full
C4_Witness ==
    \E t \in Tasks : \E u \in Tasks :
        /\ task[t].pc = "c_insert" /\ task[t].queueNumber = Val(fsQueue)
        /\ Done(u) /\ task[u].result = "quota-full"

\* C5: no double restore -- per booking at most one cancel request observes
\* rows-affected = 1; that request calls restore-slot once; every other one
\* returns already-cancelled without touching the fast store; a booking
\* raises the quota at most once through cancellation.
C5_NoDoubleRestore ==
    /\ \A b \in BookingIds :
          /\ bookings[b].hits <= 1
          /\ bookings[b].restored <= bookings[b].hits
          /\ (bookings[b].status = "cancelled") <=> (bookings[b].hits = 1)
    /\ \A t \in Tasks : (Done(t) /\ task[t].op = "cancel") =>
          /\ task[t].result = "ok" => task[t].restoreCalls = 1
          /\ task[t].result # "ok" => (task[t].restoreCalls = 0 /\ ~task[t].restoreOk)

\* two requests cancelled the same booking: one won and restored, the other
\* got already-cancelled
C5_Witness ==
    \E t \in Tasks : \E u \in Tasks :
        /\ Done(t) /\ task[t].op = "cancel" /\ task[t].result = "ok" /\ task[t].restoreOk
        /\ Done(u) /\ task[u].op = "cancel" /\ task[u].result = "already-cancelled"
        /\ task[u].bid = task[t].bid
        /\ bookings[task[t].bid].restored = 1

\* C6: compensation -- a create-booking whose insert failed after a
\* reservation calls restore-slot exactly once, whatever the state of the
\* request context; the failed insert leaves no row; and a successful
\* restore puts the quota back at its value from before the reservation
\* when nobody else wrote the key in between.
C6_Compensation ==
    [][\A t \in Tasks :
          /\ (task'[t].pc = "done" /\ task'[t].op = "create") =>
                /\ task'[t].insertErr # "none" => (task'[t].restoreCalls = 1 /\ task'[t].bid = 0)
                /\ task'[t].insertErr = "none" => task'[t].restoreCalls = 0
          /\ (task[t].pc = "c_insert" /\ task'[t].insertErr # "none") => bookings' = bookings
          /\ (task[t].op = "create" /\ task[t].pc = "r_incr" /\ task'[t].restoreOk /\ task[t].q0 # 0) =>
                fsQuota' = Key(task[t].q0)]_vars

\* a request whose context was done at the insert has compensated and the
\* quota is back at its old value
C6_Witness ==
    \E t \in Tasks : /\ Done(t) /\ task[t].op = "create" /\ task[t].insertErr = "ctx"
                     /\ task[t].restoreCalls = 1 /\ task[t].restoreOk
                     /\ task[t].q0 # 0 /\ fsQuota = Key(task[t].q0)

\* C7: a create-booking rejected by a pre-check (schedule-not-found,
\* schedule-past, already-booked from the lookup) leaves the bookings and
\* both fast-store keys unchanged and has not called reserve-slot.
C7_PreCheckNoMutation ==
    [][\A t \in Tasks :
          (/\ task[t].pc \in {"c_find", "c_lookup"}
           /\ task'[t].pc = "done"
           /\ task'[t].result \in {"schedule-not-found", "schedule-past", "already-booked"}) =>
          /\ bookings' = bookings /\ fsQuota' = fsQuota /\ fsQueue' = fsQueue
          /\ issued' = issued
          /\ task'[t].queueNumber = 0]_vars

\* a request was rejected by the lookup while the quota is used up
C7_Witness ==
    \E t \in Tasks : /\ Done(t) /\ task[t].op = "create"
                     /\ task[t].result = "already-booked" /\ task[t].insertErr = "none"
                     /\ fsQuota = Key(0)

\* C8: a reserve-slot call that returns quota-full leaves both keys with the
\* value and the existence they had before the call.
C8_QuotaFullNoMutation ==
    [][\A t \in Tasks :
          (ReserveReturns(t) /\ task'[t].result = "quota-full") =>
          (fsQuota' = fsQuota /\ fsQueue' = fsQueue)]_vars

\* the step in which task t's restore-slot INCR succeeds
RestoreSucceeds(t) == task[t].pc = "r_incr" /\ task'[t].restoreOk

\* C9: restore-slot raises the quota by exactly 1 and leaves the queue key
\* alone, so the reservation after a cancellation gets a number one greater
\* than the largest number handed out before.
C9_RestoreFrame ==
    [][\A t \in Tasks : RestoreSucceeds(t) =>
          /\ Val(fsQuota') = Val(fsQuota) + 1
          /\ fsQueue' = fsQueue
          /\ task[t].op = "cancel" =>
                LET r == decrQuotaIncrQueueScript(fsQuota', fsQueue')
                    largest == SetMax({issued[i] : i \in 1..Len(issued)})
                IN  r.ret # -1 => r.ret = largest + 1]_vars

\* C10: while the schedule exists, booking:queue:S never holds a value lower
\* than a value it held earlier.
C10_QueueCounterMonotonic ==
    (Live /\ fsQueue # Nil) => Val(fsQueue) >= queueHigh

\* the step in which SyncScheduleQuota's pipeline is executed and writes
SyncWrites == admin.pc = "s_exec" /\ admin'.pc = "s_unlock" /\ ~admin'.err
\* no request is between its first and its last step, and the rows the sync
\* read are the rows of the table
NoConcurrentOperation ==
    /\ \A t \in Tasks : task[t].pc \in {"idle", "done"}
    /\ admin.booked = SyncBookedCount
    /\ admin.maxq = SyncMaxQueueNumber
MaxQueueNumberAllBookings == SetMax({bookings[b].queue : b \in BookingIds})

\* C11: sync-schedule(S, total, date) run with no concurrent operation on S
\* leaves schedule:quota:S = max(total - non-cancelled bookings, 0) and
\* booking:queue:S = the largest queue_number over all bookings of S,
\* cancelled ones included (0 if none), both written in one transaction.
C11_SyncPostcondition ==
    [][(SyncWrites /\ NoConcurrentOperation) =>
          /\ fsQuota' = Key(IF admin.total - ActiveCount > 0 THEN admin.total - ActiveCount ELSE 0)
          /\ fsQueue' = Key(MaxQueueNumberAllBookings)]_vars

\* the step in which UpdateScheduleQuotaDelta's INCRBY runs with a negative
\* delta
NegativeDeltaApplied == admin.pc = "q_incr" /\ admin.delta < 0 /\ admin'.pc = "q_unlock" /\ ~admin'.err

\* C13: update-quota-by-delta with a negative delta never leaves
\* schedule:quota:S below 0 once it has completed, also when reserve-slot
\* calls ran between the engine's read of the current value and its INCRBY.
C13_NegativeDeltaNeverBelowZero ==
    [][NegativeDeltaApplied => Val(fsQuota') >= 0]_vars

EngineEntry == {"s_getmu", "q_getmu", "d_getmu"}
\* the administrator's request step: the transaction and, when it committed,
\* the first engine call
AdminRequest == admin.pc = "idle" /\ admin'.pc # "idle"

\* C18: the administrator calls the engine only after its transaction has
\* committed, with create -> sync-schedule(new total, new date); update of
\* the total only -> update-quota-by-delta(new - old, date); update of the
\* date -> delete-schedule-keys then sync-schedule(new total, new date);
\* delete -> delete-schedule-keys; and no engine call when the transaction
\* did not commit.
C18_EngineCallMapping ==
    [][/\ AdminRequest =>
            \/ /\ admin'.op = "create" /\ sched.state = "none" /\ sched'.state = "live"
               /\ admin'.pc = "s_getmu" /\ ~admin'.resync
               /\ admin'.total = sched'.total /\ admin'.date = sched'.date
            \/ /\ admin'.op = "update" /\ sched.state = "live" /\ sched'.state = "live"
               /\ sched'.date # sched.date
               /\ admin'.pc = "d_getmu" /\ admin'.resync
               /\ admin'.total = sched'.total /\ admin'.date = sched'.date
            \/ /\ admin'.op = "update" /\ sched.state = "live" /\ sched'.state = "live"
               /\ sched'.date = sched.date /\ sched'.total # sched.total
               /\ admin'.pc = "q_getmu"
               /\ admin'.delta = sched'.total - sched.total /\ admin'.date = sched'.date
            \/ /\ admin'.op = "delete" /\ sched.state = "live" /\ sched'.state = "deleted"
               /\ admin'.pc = "d_getmu" /\ ~admin'.resync
            \/ /\ sched' = sched /\ admin'.pc = "a_done" /\ admin'.result = "error"
       /\ (admin'.pc \in EngineEntry /\ admin.pc # admin'.pc) =>
            \/ admin.pc = "idle"
            \/ /\ admin.pc = "d_evict" /\ admin.op = "update" /\ admin'.pc = "s_getmu"
               /\ admin'.total = sched.total /\ admin'.date = sched.date
       /\ (admin' # admin /\ admin.pc = "d_evict" /\ admin.op = "delete") => admin'.pc = "a_done"
       /\ (admin' # admin /\ admin.pc = "d_evict" /\ admin.op = "update") => admin'.pc = "s_getmu"
       /\ (admin' # admin /\ admin.pc \in {"s_unlock", "q_unlock"}) => admin'.pc = "a_done"]_vars

\* an update of the date has removed the keys and is in its sync-schedule
\* call with the committed total and date
C18_Witness ==
    /\ admin.op = "update" /\ admin.pc = "s_exec"
    /\ fsQuota = Nil /\ fsQueue = Nil
    /\ admin.total = sched.total /\ admin.date = sched.date

\* the administrator's durable change is in the schedule row
Committed ==
    IF admin.op = "delete" THEN sched.state = "deleted"
    ELSE sched.state = "live" /\ sched.total = admin.total /\ sched.date = admin.date
\* an engine call returns to the usecase
EngineReturns == admin.pc \in {"s_unlock", "q_unlock", "d_evict"} /\ admin' # admin

\* C19: when sync-schedule, update-quota-by-delta or delete-schedule-keys
\* returns an error after the commit, the schedule create / update / delete
\* stays committed and the administrator's operation reports success.
C19_FastStoreFailureNonFatal ==
    [][(EngineReturns /\ admin.err) =>
          /\ Committed /\ sched' = sched
          /\ \/ admin'.pc = "a_done" /\ admin'.result = "ok"
             \/ admin'.pc = "s_getmu" /\ admin.pc = "d_evict"]_vars

\* a delete was reported as done although its DEL failed and the keys remain
C19_Witness ==
    /\ admin.pc = "a_done" /\ admin.op = "delete" /\ admin.err /\ admin.result = "ok"
    /\ sched.state = "deleted" /\ fsQuota # Nil

StartupSynced == admin.op = "startup" /\ admin.pc = "a_done" /\ admin.result = "ok"

\* C12: after full-sync-on-startup returns without error, a schedule with
\* date >= today has schedule:quota:S = max(0, total - active count) and
\* booking:queue:S = the largest queue_number of its bookings (0 if none),
\* whatever the fast store held before and also when the total is below the
\* active count.
C12_StartupSyncPostcondition ==
    (StartupSynced /\ sched.state = "live" /\ sched.date # "past") =>
        /\ fsQuota = Key(IF sched.total - ActiveCount > 0 THEN sched.total - ActiveCount ELSE 0)
        /\ fsQueue = Key(MaxQueueNumberAllBookings)

\* the step in which a worker accepts a booking request
RequestAccepted == \E t \in Tasks : task[t].pc = "idle" /\ task'[t].pc # "idle"
StartupReturned == ~(admin.op = "startup" /\ admin.pc # "a_done")

DeltasApplied == hist.on /\ hist.ok /\ admin.pc = "idle"
ReservedSinceStart == Len(issued) - hist.i0

\* C14: a capacity-only update never erases a concurrent reservation -- when
\* no delta was clamped, after the update-quota-by-delta calls and k
\* successful reserve-slot calls (before, during or after them) the quota is
\* the initial quota + the deltas - k.
C14_DeltaKeepsReservations ==
    (DeltasApplied /\ hist.exact) =>
        Val(fsQuota) = hist.q0 + (sched.total - hist.t0) - ReservedSinceStart

\* a capacity change has been applied while a reservation made meanwhile is
\* not yet in the bookings table
C14_Witness ==
    /\ DeltasApplied /\ hist.exact /\ sched.total # hist.t0
    /\ ReservedSinceStart > 0
    /\ \E t \in Tasks : task[t].pc = "c_insert"

\* C15: capacity-delta idempotence -- from any starting quota, after
\* update-quota-by-delta calls whose deltas sum to 0, with no booking or
\* cancellation in between, the quota is the starting value.
C15_DeltaIdempotence ==
    (DeltasApplied /\ workers = {} /\ sched.total = hist.t0) => Val(fsQuota) = hist.q0

\* a sync-schedule call that follows an earlier one; every call so far
\* returned nil
LaterSync == hist.on /\ hist.ok /\ admin.op = "sync" /\ adminLeft < MaxAdminOps

\* C16: round trip -- starting from a sync-schedule, after N successful
\* reservations each followed by its insert, a second sync-schedule leaves
\* schedule:quota:S unchanged, equal to total - initial active count - N, and
\* leaves booking:queue:S unchanged.
C16_SyncRoundTrip ==
    [][(SyncWrites /\ LaterSync) =>
          /\ fsQuota' = fsQuota
          /\ fsQueue' = fsQueue
          /\ ReservedSinceStart >= 1 =>
                Val(fsQuota') = sched.total - hist.a0 - ReservedSinceStart]_vars

\* the second sync-schedule has written after one reservation and its insert
C16_Witness ==
    /\ LaterSync /\ admin.pc = "s_unlock" /\ ~admin.err
    /\ ReservedSinceStart >= 1 /\ Len(bookings) > hist.a0
    /\ fsQuota = Key(sched.total - hist.a0 - ReservedSinceStart)
    /\ fsQueue = Key(queueHigh)

\* every request of the burst has its result and no store call failed
BurstAnswered ==
    /\ DOMAIN task = BurstTasks
    /\ \A t \in BurstTasks : Done(t) /\ task[t].result \in {"ok", "quota-full"}
BurstOk == {t \in BurstTasks : task[t].result = "ok"}

\* C21: burst admission -- a freshly synced schedule with capacity C and no
\* bookings gets N > C concurrent create-booking requests by distinct
\* patients and no store call fails: exactly C succeed as pending with the
\* queue numbers {1..C}, N - C get quota-full, the table ends with C rows,
\* schedule:quota:S = 0 and booking:queue:S = C, in every interleaving.
C21_BurstAdmission ==
    BurstAnswered =>
        /\ Cardinality(BurstOk) = sched.total
        /\ \A t \in BurstOk : /\ task[t].bid \in BookingIds
                              /\ bookings[task[t].bid].status = "pending"
                              /\ bookings[task[t].bid].patient = task[t].patient
                              /\ bookings[task[t].bid].queue = task[t].queueNumber
        /\ {task[t].queueNumber : t \in BurstOk} = 1..sched.total
        /\ Cardinality({t \in BurstTasks : task[t].result = "quota-full"}) = BurstSize - sched.total
        /\ Len(bookings) = sched.total
        /\ fsQuota = Key(0)
        /\ fsQueue = Key(sched.total)

\* the burst is answered: the last request to reserve got the highest
\* number, and its row was inserted before the row of an earlier one
C21_Witness ==
    /\ BurstAnswered /\ sched.total = MaxCap
    /\ \E t \in BurstOk : \E u \in BurstOk :
          task[t].queueNumber < task[u].queueNumber /\ task[u].bid < task[t].bid
    /\ \E t \in BurstTasks : task[t].result = "quota-full"

\* the highest queue number in the rows the schedule had before the attempt
PreviousMax == SetMax({bookings[b].queue : b \in 1..hist.a0})
\* the attempt failed at the insert and its compensation succeeded
Compensated == hist.on /\ InsertFailedReturned /\ task[1].restoreOk
\* the retry ran without a store failure of its own
RetryAnswered ==
    /\ Compensated /\ Done(2)
    /\ task[2].result # "error" /\ task[2].insertErr = "none"

SequentialRequests == Cardinality(workers) = 1
\* the cancelled rows of patient p whose slot was restored
CancelledRestored(p) ==
    {b \in BookingIds : /\ bookings[b].patient = p /\ bookings[b].status = "cancelled"
                        /\ bookings[b].restored = 1}

\* C23: re-booking after cancel -- once a patient's booking is cancelled and
\* its quota restored, a later create-booking of the same patient is not
\* answered already-booked on account of the cancelled row, and the new
\* booking's queue number is strictly greater than the cancelled booking's.
C23_RebookAfterCancel ==
    [][SequentialRequests =>
          \A t \in Tasks :
              /\ (task[t].pc = "c_lookup" /\ task'[t].result = "already-booked") =>
                    FindByPatientAndSchedule(task[t].patient) # {}
              /\ (task[t].pc = "c_insert" /\ task'[t].result = "ok") =>
                    \A b \in CancelledRestored(task[t].patient) :
                        bookings'[task'[t].bid].queue > bookings[b].queue]_vars

\* C24: booking lifecycle -- a row is created with status pending, its only
\* status change is pending -> cancelled, a cancelled row keeps its status,
\* no row is ever confirmed, rows are never removed, and a row's queue_number
\* (and patient) never changes after creation.
C24_BookingLifecycle ==
    [][/\ Len(bookings') >= Len(bookings)
       /\ \A b \in 1..Len(bookings') :
             /\ bookings'[b].status \in {"pending", "cancelled"}
             /\ b \notin BookingIds => bookings'[b].status = "pending"
             /\ b \in BookingIds =>
                   /\ bookings'[b].queue = bookings[b].queue
                   /\ bookings'[b].patient = bookings[b].patient
                   /\ bookings'[b].status # bookings[b].status =>
                         (bookings[b].status = "pending" /\ bookings'[b].status = "cancelled")
                   /\ bookings[b].status = "cancelled" => bookings'[b].status = "cancelled"]_vars

\* a cancelled row and a later pending row of the same patient, while a
\* second cancel request for the cancelled row is about to run its UPDATE
C24_Witness ==
    \E b \in BookingIds : \E c \in BookingIds : \E t \in Tasks :
        /\ b < c /\ bookings[b].patient = bookings[c].patient
        /\ bookings[b].status = "cancelled" /\ bookings[c].status = "pending"
        /\ task[t].pc = "x_update" /\ task[t].bid = b

\* C25: whenever reserve-slot returns a transport error to the caller (the
\* fast store is out, or the request's deadline or cancellation fires during
\* the script call), that call has changed neither schedule:quota:S nor
\* booking:queue:S, so create-booking's return without compensation leaks no
\* reservation.
C25_TransportErrorNoMutation ==
    [][\A t \in Tasks :
          (ReserveReturns(t) /\ task'[t].result = "error") =>
          (fsQuota' = fsQuota /\ fsQueue' = fsQueue /\ task'[t].restoreCalls = 0)]_vars

\* task t's step from position pc to another one, without a store error
StepFrom(t, pc) == task[t].pc = pc /\ task'[t].pc # pc /\ task'[t].result # "error"

\* C30: create-booking checks in the order schedule-not-found,
\* schedule-past, already-booked, quota-full and reports the first that
\* applies: a past-dated schedule gives schedule-past whatever the quota and
\* the patient's bookings, and a patient with an active booking gets
\* already-booked, without a reserve-slot call, also when no quota is left.
C30_CheckOrder ==
    [][\A t \in Tasks :
          /\ StepFrom(t, "c_find") =>
                /\ ~Live => task'[t].result = "schedule-not-found"
                /\ (Live /\ sched.date = "past") => task'[t].result = "schedule-past"
                /\ (Live /\ sched.date # "past") => task'[t].pc = "c_lookup"
          /\ StepFrom(t, "c_lookup") =>
                /\ FindByPatientAndSchedule(task[t].patient) # {} =>
                      /\ task'[t].result = "already-booked"
                      /\ fsQuota' = fsQuota /\ fsQueue' = fsQueue
                /\ FindByPatientAndSchedule(task[t].patient) = {} => task'[t].pc = "c_reserve"
          /\ (task[t].op = "create" /\ task[t].pc # "done" /\ task'[t].pc = "done") =>
                /\ task'[t].result \in {"schedule-not-found", "schedule-past"} => task[t].pc = "c_find"
                /\ (task'[t].result = "already-booked" /\ task'[t].insertErr = "none") =>
                      task[t].pc = "c_lookup"
                /\ task'[t].result = "quota-full" => task[t].pc = "c_reserve"]_vars

\* a request for a past-dated schedule was answered schedule-past although
\* the patient holds an active booking and no quota is left
C30_Witness ==
    \E t \in Tasks : /\ Done(t) /\ task[t].result = "schedule-past"
                     /\ FindByPatientAndSchedule(task[t].patient) # {}
                     /\ Val(fsQuota) = 0 /\ sched.date = "past"

\* C27: reserve-slot never acquires or waits on the per-schedule mutex -- a
\* request at its reservation can run the script in every state, whoever
\* holds the schedule's mutex, and the reservation step leaves the mutex
\* table and every mutex as they are.
C27_ReserveTakesNoMutex ==
    /\ [](\A t \in Tasks : task[t].pc = "c_reserve" => ENABLED DecrQuotaAndIncrQueue(t))
    /\ [][\A t \in Tasks : ReserveReturns(t) =>
             (muMap' = muMap /\ muLocked' = muLocked /\ task'[t].mt = 0)]_vars

\* a request holds a reservation made after the administrator's delta call
\* read the quota under the mutex and before its INCRBY: the delta, clamped
\* against the value read, is now below the quota
C27_Witness ==
    \E t \in Tasks :
        /\ task[t].pc = "c_insert" /\ task[t].queueNumber = Val(fsQueue)
        /\ admin.pc = "q_incr" /\ admin.mt \in muLocked /\ admin.delta < 0
        /\ task[t].q0 = Val(fsQuota) + 1
        /\ Val(fsQuota) + admin.delta < 0

\* who is inside a critical section of the schedule's mutex
TasksInCS == {t \in Tasks : task[t].pc \in {"r_incr", "r_unlock"}}
AdminInCS == admin.pc \in {"s_query", "s_exec", "s_unlock", "q_get", "q_incr", "q_unlock",
                           "d_del", "d_unlock"}
CleanupInCS == svc.loop \in {"check", "unlock"}
\* the mutex objects held by those inside a critical section
HeldMutexes ==
    {task[t].mt : t \in TasksInCS}
    \cup (IF AdminInCS THEN {admin.mt} ELSE {})
    \cup (IF CleanupInCS THEN {svc.mt} ELSE {})
NumInCS ==
    Cardinality(TasksInCS) + (IF AdminInCS THEN 1 ELSE 0) + (IF CleanupInCS THEN 1 ELSE 0)

\* C28: deadlock freedom of the mutex table -- a locked schedule mutex is
\* held by exactly one task inside its critical section, hence a task holds
\* at most one and has released it on every return path, success or error,
\* of sync-schedule, update-quota-by-delta, delete-schedule-keys,
\* restore-slot and the cleanup pass; and under fair scheduling every task
\* waiting for a schedule mutex eventually acquires it.
C28_MutexDeadlockFree ==
    /\ [](muLocked = HeldMutexes /\ Cardinality(muLocked) = NumInCS)
    /\ \A t \in Tasks : (task[t].pc = "r_lock") ~> (task[t].pc = "r_incr")
    /\ (admin.pc \in {"s_lock", "q_lock", "d_lock"}) ~> AdminInCS

\* a failed restore has returned and released the mutex, which the
\* administrator's engine call, having waited for it, now holds
C28_Witness ==
    \E t \in Tasks :
        /\ Done(t) /\ task[t].op = "cancel" /\ task[t].restoreCalls = 1 /\ ~task[t].restoreOk
        /\ AdminInCS /\ muLocked = {admin.mt}

\* C26: per-schedule mutual exclusion -- at most one of sync-schedule,
\* update-quota-by-delta, delete-schedule-keys and restore-slot is inside its
\* critical section for the schedule at any instant, also while the cleanup
\* evicts the table entry and while delete-schedule-keys removes it after
\* unlocking.
C26_MutualExclusion ==
    Cardinality(TasksInCS) + (IF AdminInCS THEN 1 ELSE 0) <= 1

\* the cleanup loop has returned
LoopTerminated == svc.loop = "exited"

\* C29: shutdown -- once Stop is called the cleanup loop terminates, every
\* call to Stop (the first, a repeated one, one concurrent with another)
\* returns only after the loop has terminated, and every call returns: a
\* second call neither closes the channel again nor blocks forever.
C29_StopWaitsForLoop ==
    /\ svc.stopped ~> LoopTerminated
    /\ [](\A c \in Stoppers : svc.stop[c] = "returned" => LoopTerminated)
    /\ \A c \in Stoppers : (svc.stop[c] # "idle") ~> (svc.stop[c] = "returned")
    /\ [][\A c \in Stoppers : (svc.stop[c] = "close" /\ svc'.stop[c] = "wait") => ~svc.closed]_vars

\* the owner of booking row b
Owner(b) == bookings[b].patient

\* C31: cancel-booking by a patient who does not own the booking returns
\* booking-not-owned and cancel-booking for an unknown id returns
\* booking-not-found; in both cases the rows, the schedule and both
\* fast-store keys are unchanged and restore-slot is not called, so a row is
\* cancelled, and a slot freed through cancellation, by its owner only.
C31_CancelOwnership ==
    [][\A t \in Tasks :
          /\ StepFrom(t, "x_find") =>
                /\ task[t].bid \notin BookingIds => task'[t].result = "booking-not-found"
                /\ (task[t].bid \in BookingIds /\ Owner(task[t].bid) # task[t].patient) =>
                      task'[t].result = "booking-not-owned"
                /\ task'[t].result \in {"booking-not-found", "booking-not-owned"} =>
                      /\ task'[t].pc = "done" /\ task'[t].restoreCalls = 0
                      /\ bookings' = bookings /\ sched' = sched
                      /\ fsQuota' = fsQuota /\ fsQueue' = fsQueue
          /\ (task[t].op = "cancel" /\ task[t].pc # "done" /\ task'[t].pc = "done"
              /\ task'[t].result \in {"booking-not-found", "booking-not-owned"}) =>
                task[t].pc = "x_find"
          /\ (task[t].pc = "x_update" /\ task'[t].pc = "r_getmu") =>
                /\ Owner(task[t].bid) = task[t].patient
                /\ \A b \in BookingIds : bookings'[b] # bookings[b] => b = task[t].bid
          /\ (task[t].op = "cancel" /\ RestoreSucceeds(t)) =>
                Owner(task[t].bid) = task[t].patient]_vars

\* one request was refused as not the owner of an active booking and another
\* was answered booking-not-found, the quota being used up
C31_Witness ==
    \E t \in Tasks : \E u \in Tasks :
        /\ Done(t) /\ task[t].op = "cancel" /\ task[t].result = "booking-not-owned"
        /\ IsActive(task[t].bid) /\ Owner(task[t].bid) # task[t].patient
        /\ Done(u) /\ task[u].op = "cancel" /\ task[u].result = "booking-not-found"
        /\ fsQuota = Key(0) /\ ActiveCount = sched.total

\* the step in which task t's bookingRepo.Create returns an error
InsertFails(t) == task[t].pc = "c_insert" /\ task'[t].insertErr # "none"

\* C32: when the insert of create-booking fails, the result is
\* already-booked if and only if the failure is a violation of the partial
\* unique index on (patient_id, schedule_id); every other error of the store,
\* a unique violation on booking_code included, is returned as the store's
\* error.
C32_AlreadyBookedIffPatientScheduleIndex ==
    [][\A t \in Tasks : InsertFails(t) =>
          /\ task'[t].result \in {"already-booked", "error"}
          /\ (task'[t].result = "already-booked") <=> (task'[t].insertErr = "unique")]_vars

\* task t's cancel-booking called restore-slot and the INCR failed
RestoreFailed(t) ==
    /\ task[t].op = "cancel" /\ task[t].pc \in {"r_unlock", "done"}
    /\ task[t].restoreCalls = 1 /\ ~task[t].restoreOk
\* a cancel-booking is between its UPDATE of row b and the INCR of its restore
RestorePending(b) ==
    \E t \in Tasks : /\ task[t].op = "cancel" /\ task[t].bid = b
                     /\ task[t].pc \in {"r_getmu", "r_lock", "r_incr"}
\* cancelled rows whose slot has not been given back to the quota
Unrestored == {b \in BookingIds : bookings[b].status = "cancelled" /\ bookings[b].restored = 0}
\* ... because the restore failed
LeakedCancels == {b \in Unrestored : ~RestorePending(b)}
\* reservations whose row is not inserted yet
InFlightReservations == {t \in Tasks : task[t].pc = "c_insert"}

\* C33: when restore-slot fails inside cancel-booking after the UPDATE
\* affected one row, cancel-booking still returns success, the booking stays
\* cancelled, and schedule:quota:S stays lower than total_capacity - active
\* count by one per failed restore (rows not yet inserted or restored
\* counted apart); the failure never re-activates the booking and no later
\* step restores its slot.
C33_RestoreFailureNonFatal ==
    /\ [](\A t \in Tasks : (Done(t) /\ RestoreFailed(t)) =>
             /\ task[t].result = "ok"
             /\ task[t].bid \in LeakedCancels)
    /\ [](\A t \in Tasks : task[t].restoreCalls <= 1)
    /\ [](Val(fsQuota) = sched.total - ActiveCount - Cardinality(Unrestored)
                         - Cardinality(InFlightReservations))
    /\ [][\A b \in LeakedCancels :
             /\ bookings'[b].status = "cancelled" /\ bookings'[b].restored = 0
             /\ ~RestorePending(b)']_vars

\* a cancellation returned success with its restore failed, and a later
\* request was told quota-full although the schedule has a free slot
C33_Witness ==
    \E t \in Tasks : \E u \in Tasks :
        /\ Done(t) /\ RestoreFailed(t) /\ task[t].result = "ok"
        /\ Done(u) /\ task[u].op = "create" /\ task[u].result = "quota-full"
        /\ Val(fsQuota) = sched.total - ActiveCount - 1
        /\ ActiveCount < sched.total

\* the crash left the quota below total - active count: a reservation
\* without a row, or a cancelled or failed booking without its restore
LeakAtCrash == hist.on /\ hist.q0 < hist.t0 - hist.a0

DeleteCompleted ==
    /\ sched.state = "deleted"
    /\ admin.op = "delete" /\ admin.pc = "a_done" /\ admin.result = "ok" /\ ~admin.err

\* C35: once the administrator's delete of the schedule has completed (commit,
\* then delete-schedule-keys), neither schedule:quota:S nor booking:queue:S
\* exists, and no reservation, compensation or cancellation that was in
\* flight when the delete ran creates either key again.
C35_KeysGoneAfterDelete ==
    DeleteCompleted => (fsQuota = Nil /\ fsQueue = Nil)

\* C36: admission-gate invariant -- in every reachable state in which the
\* schedule exists and its quota key exists, schedule:quota:S is at most
\* total_capacity - the number of non-cancelled booking rows: the gate never
\* offers more slots than the durable store has free.
C36_AdmissionGate ==
    (Live /\ fsQuota # Nil) => Val(fsQuota) <= sched.total - ActiveCount

\* no request is between its first step and its return
Quiescent == \A t \in Tasks : task[t].pc \in {"idle", "done"}
\* requests that hold a slot out of the quota without an active row for it:
\* a reservation before its insert or its compensation, a cancellation
\* before its restore
HoldingSlot == {t \in Tasks : task[t].pc \in {"c_insert", "r_getmu", "r_lock", "r_incr"}}

\* C37: quota conservation at quiescence -- from a synced schedule, after any
\* sequence of create-booking and cancel-booking requests (successful,
\* rejected, or failed at the insert and compensated) with no fast-store
\* failure and no administrative change, once no request is in flight
\* schedule:quota:S + active rows = total_capacity; while requests are in
\* flight the difference is the number of slots they hold.
C37_QuotaConservation ==
    /\ fsQuota # Nil
    /\ Val(fsQuota) + ActiveCount + Cardinality(HoldingSlot) = sched.total
    /\ Quiescent => Val(fsQuota) + ActiveCount = sched.total

\* no request is in flight after a cancellation with its restore and a
\* create-booking that failed at the insert and was compensated
C37_Witness ==
    /\ Quiescent
    /\ \E t \in Tasks : \E u \in Tasks :
          /\ Done(t) /\ task[t].op = "cancel" /\ task[t].result = "ok" /\ task[t].restoreOk
          /\ Done(u) /\ task[u].op = "create" /\ task[u].insertErr # "none" /\ task[u].restoreOk
    /\ Len(bookings) > ActiveCount
    /\ Val(fsQuota) + ActiveCount = sched.total

\* UpdateSchedule has committed a change of the date (to today or later) and
\* is between its call of DeleteScheduleKeys and the return of
\* SyncScheduleQuota
DateChangeInProgress ==
    /\ admin.op = "update" /\ sched.date # "past"
    /\ admin.pc \in {"d_getmu", "d_lock", "d_del", "d_unlock", "d_evict",
                     "s_getmu", "s_lock", "s_query", "s_exec", "s_unlock"}

\* C38: while an update that changes the schedule's date runs
\* (delete-schedule-keys, then sync-schedule), a concurrent create-booking is
\* answered quota-full only if the schedule has no free slot (active rows =
\* total_capacity); a reservation that lands between the deletion of the keys
\* and the re-sync does not report quota-full for a schedule with capacity.
C38_NoFalseQuotaFullDuringDateChange ==
    [][\A t \in Tasks :
          (DateChangeInProgress /\ ReserveReturns(t) /\ task'[t].result = "quota-full") =>
          ActiveCount >= sched.total]_vars

\* task t passed the lookup and its reservation succeeded
Reserved(t) == task[t].result = "ok" \/ task[t].insertErr # "none"
\* both requests of the patient reserved a slot and have completed, the only
\* insert error being that of the partial unique index
BothReservedAndDone ==
    /\ hist.on /\ Cardinality(Tasks) = 2
    /\ \A t \in Tasks : /\ Done(t) /\ task[t].op = "create" /\ Reserved(t)
                        /\ task[t].insertErr \in {"none", "unique"}
                        /\ task[t].patient = task[1].patient

\* C39: one patient sends two create-booking requests for the schedule
\* concurrently, both pass the early lookup and both reserve a slot: after
\* both have completed exactly one booking row of the patient exists, the
\* losing request was answered already-booked and has been compensated, and
\* schedule:quota:S is lower by exactly 1 (booking:queue:S has advanced by 2,
\* which leaves a gap).
C39_ConcurrentDuplicate ==
    BothReservedAndDone =>
        /\ Cardinality(FindByPatientAndSchedule(task[1].patient)) = 1
        /\ Len(bookings) = hist.a0 + 1
        /\ \E w \in Tasks : \E l \in Tasks :
              /\ w # l
              /\ task[w].result = "ok" /\ task[w].bid = Len(bookings)
              /\ bookings[task[w].bid].queue = task[w].queueNumber
              /\ task[w].queueNumber \in {hist.a0 + 1, hist.a0 + 2}
              /\ task[l].result = "already-booked" /\ task[l].insertErr = "unique"
              /\ task[l].restoreCalls = 1 /\ task[l].restoreOk /\ task[l].bid = 0
        /\ fsQuota = Key(hist.q0 - 1)
        /\ fsQueue = Key(hist.a0 + 2)
        /\ muLocked = {}

\* both requests have completed; the one that reserved second inserted
\* first, so the row carries the higher number and the lower one is the gap
C39_Witness ==
    /\ BothReservedAndDone
    /\ \E w \in Tasks : /\ task[w].result = "ok"
                        /\ bookings[task[w].bid].queue = hist.a0 + 2
                        /\ issued = <<hist.a0 + 1, hist.a0 + 2>>
    /\ fsQuota = Key(hist.q0 - 1)

====
